---- MODULE Spec2Model ----
(***************************************************************************)
(* State reconciliation between manifest.jsonl and the Beads tracker       *)
(* (verification/reconcile-state.ts).  One reconcile process is modelled   *)
(* step by step; it may be killed at any step and re-run.                  *)
(*                                                                         *)
(* Spec      reconcile-state.ts alone, on any manifest and tracker.        *)
(* SpecOrch  /plan-orchestrate: the pre-flight reconcile followed by the   *)
(*           feature loop, on a freshly optimized plan.                    *)
(* SpecStop  verification/verify-stop.ts: one run of the Stop hook.        *)
(***************************************************************************)
EXTENDS Integers, Sequences, FiniteSets, TLC

\* Number of features (lines) of the manifest.
NumFeatures == 2
\* Number of reconcile runs made one after the other on the plan directory.
MaxPasses == 2

Features == 1..NumFeatures

\* ManifestEntry.status, and what validateManifestEntry accepts.
ValidStatuses == {"pending", "in_progress", "completed", "failed"}
\* A status string outside the enum, as an edited manifest may hold.
AnyStatus == ValidStatuses \cup {"bogus"}
\* Status strings `bd show` reports for a task.
BeadsStatuses == {"open", "in_progress", "closed"}
\* getBeadsStatus returned null: task not found, or bd show failed.
Absent == "absent"

VARIABLES
    manifest,     \* manifest.jsonl on disk: its parseable lines, in order
    corrupt,      \* manifest.jsonl holds a line that is not valid JSON
    beads,        \* status of each Beads task, by beads_id (= feature id)
    verification, \* verification[i]: does `sh -c entry.verification` exit 0
                  \* ("pass" / "fail"; "unrun" until the command first runs)
    uncommitted,  \* does `git status --porcelain` list any file ("clean" /
                  \* "dirty"; "unread" until the answer is first looked at)
    pc,           \* position of the reconcile process
    exitCode,     \* process exit code once pc = "done"
    entries,      \* reconcile's in-memory entries
    idx,          \* next entry of the for loop
    modified,     \* reconcile's `modified` flag
    synced,       \* outcome of `bd sync` in this pass: "no", "ok", "failed"
    gitRead,      \* outcome of checkGitState in this pass: "no", "ok", "failed"
    shown,        \* beads ids passed to `bd show` in this pass
    ranVerify,    \* features whose verification command ran in this pass
    calls,        \* per feature: the bd update / bd close call of this pass
    nWrites,      \* writeFileSync calls on manifest.jsonl in this pass
    pass,         \* number of the current reconcile run
    start,        \* manifest, corrupt and beads when this pass started
    origin,       \* the same when the pass started that `start` would have
                  \* been reached from without a kill: the start of the run
                  \* of killed passes that ends with this pass
    prev,         \* how the previous pass ended
    dependsOn,    \* dependsOn[id]: the depends_on field of feature id's line
    cur,          \* /plan-orchestrate: the line of the feature being executed
                  \* (0 when none is)
    verified,     \* /plan-orchestrate: what verify-feature.ts answered for
                  \* the feature being executed ("none" / "pass" / "fail")
    tracked,      \* verify-stop: the in_progress items as the tracker holds
                  \* them, while gate 0 is looked at
    inProgress,   \* verify-stop: checkWorkflowCompliance's inProgress
    issues,       \* verify-stop: checkWorkflowCompliance's issues
    errors,       \* verify-stop: main's errors
    evaluated,    \* verify-stop: the gates evaluated so far, with their results
    config,       \* verify-stop: what loadConfig returned
    stderr,       \* verify-stop: what was written to the error stream
    fields,       \* fields[i]: the fields, status aside, that line i of
                  \* manifest.jsonl carries with a truthy value
    mode,         \* reflect: "hook" (reflect-hook.ts), "command" (reflect.ts),
                  \* or "none" when neither runs
    reflectState, \* reflect: .reflect-state.json
    skillFile,    \* reflect: the skill file in .claude/: whether one exists,
                  \* and the learnings sections appended to it
    commits,      \* reflect: git commits made
    learnings,    \* reflect: result.learnings, each by its confidence
    answer,       \* reflect: what the user answered to the prompt
    before,       \* reflect: the files and commits when the run started
    world,        \* two reconcile passes at once: each plan directory's
                  \* manifest.jsonl, the tracker, and each pass's memory
    world0,       \* the same when the two passes started
    oracle,       \* what the commands the two passes run answer
    devops,       \* sync-devops.ts: its mode, position, in-memory entries,
                  \* flags and exit code
    bump,         \* bump-version.ts: its arguments, position, packages read,
                  \* errors and exit code
    packageFiles, \* package.json and .claude-plugin/plugin.json on disk
    stateFile,    \* .reflect-state.json as reflect-config.ts finds it
    callers,      \* the processes calling recordReflection / setEnabled
    tally         \* what those calls were, for the claims about them

vars == <<manifest, corrupt, beads, verification, uncommitted, pc, exitCode,
          entries, idx, modified, synced, gitRead, shown, ranVerify, calls,
          nWrites, pass, start, origin, prev, dependsOn, cur, verified,
          tracked, inProgress, issues, errors, evaluated, config, stderr,
          fields, mode, reflectState, skillFile, commits, learnings, answer,
          before, world, world0, oracle, devops, bump, packageFiles,
          stateFile, callers, tally>>

env == <<verification, uncommitted>>

Entry(i, s) == [id |-> i, status |-> s]

Snapshot == [manifest |-> manifest, corrupt |-> corrupt, beads |-> beads]

NoCalls == [i \in Features |-> "none"]
\* No pass has run before this one.
NoPrev ==
    [how |-> "none", exit |-> -1, failed |-> FALSE, acted |-> FALSE,
     afterFailed |-> FALSE]
FailedCalls == {"update_failed", "close_failed"}

----------------------------------------------------------------------------
\* A faulty readManifest that drops the lines it cannot parse.
ReadManifestSkipsBadLines(lines, bad) == [null |-> FALSE, entries |-> lines]

\* readManifest: null when a line does not parse, else the entries in order
\* (a missing file gives null as well; the model holds no such file).
ReadManifest(lines, bad) ==
    [null |-> bad, entries |-> IF bad THEN <<>> ELSE lines]

\* The fields, status aside, that the manifest format requires.
RequiredFields ==
    {"id", "file", "title", "description", "depends_on", "verification",
     "beads_id"}

\* The same fields of validateManifestEntry's `required` list.
CheckedFields == {"id", "file", "title", "verification", "beads_id"}

\* validateManifestEntry: no error for an entry that has the fields `has`.
\* A missing status is a status outside validStatuses.
ValidateManifestEntry(entry, has) ==
    /\ CheckedFields \subseteq has
    /\ entry.status \in ValidStatuses

\* A faulty chain without Case 4.
CaseOfKeepsInProgress(m, b) ==
    IF b = "closed" /\ m # "completed" THEN 1
    ELSE IF m = "completed" /\ b # "closed" THEN 2
    ELSE IF b = "in_progress" /\ m = "pending" THEN 3
    ELSE IF m = "in_progress" /\ b = "in_progress" THEN 5
    ELSE IF m = "failed" THEN 6
    ELSE 7

\* A faulty chain whose Case 3 does not test the Beads status.
CaseOfResetsEveryPending(m, b) ==
    IF b = "closed" /\ m # "completed" THEN 1
    ELSE IF m = "completed" /\ b # "closed" THEN 2
    ELSE IF m = "pending" THEN 3
    ELSE IF m = "in_progress" /\ b = "open" THEN 4
    ELSE IF m = "in_progress" /\ b = "in_progress" THEN 5
    ELSE IF m = "failed" THEN 6
    ELSE 7

\* A faulty chain whose Case 1 trusts a closed task for in_progress only.
CaseOfTrustsClosedMidFeature(m, b) ==
    IF b = "closed" /\ m = "in_progress" THEN 1
    ELSE IF m = "completed" /\ b # "closed" THEN 2
    ELSE IF b = "in_progress" /\ m = "pending" THEN 3
    ELSE IF m = "in_progress" /\ b = "open" THEN 4
    ELSE IF m = "in_progress" /\ b = "in_progress" THEN 5
    ELSE IF m = "failed" THEN 6
    ELSE 7

\* A faulty chain without Case 6.
CaseOfKeepsFailed(m, b) ==
    IF b = "closed" /\ m # "completed" THEN 1
    ELSE IF m = "completed" /\ b # "closed" THEN 2
    ELSE IF b = "in_progress" /\ m = "pending" THEN 3
    ELSE IF m = "in_progress" /\ b = "open" THEN 4
    ELSE IF m = "in_progress" /\ b = "in_progress" THEN 5
    ELSE 7

\* The if / else-if chain of the for loop: the number of the first branch
\* whose condition holds for manifest status m and Beads status b.
CaseOf(m, b) ==
    IF b = "closed" /\ m # "completed" THEN 1
    ELSE IF m = "completed" /\ b # "closed" THEN 2
    ELSE IF b = "in_progress" /\ m = "pending" THEN 3
    ELSE IF m = "in_progress" /\ b = "open" THEN 4
    ELSE IF m = "in_progress" /\ b = "in_progress" THEN 5
    ELSE IF m = "failed" THEN 6
    ELSE 7

\* A faulty test with the git condition inverted.
CrashRecoveredWhenDirty(verificationPasses, dirty) == verificationPasses /\ dirty

\* A faulty test that leaves the working tree out.
CrashRecoveredIgnoresGit(verificationPasses, dirty) == verificationPasses

\* Case 5: the work counts as done when the verification command passes and
\* git lists no uncommitted file.
CrashRecovered(verificationPasses, dirty) == verificationPasses /\ ~dirty

\* A faulty loop that goes on with a status it did not get.
SkipsNothing(b) == FALSE

\* `if (!beadsStatus) continue`: the entry is skipped when getBeadsStatus
\* returned null.
Skips(b) == b = Absent

\* A faulty table whose Case 2 sets `modified` without changing a status.
DecideMarksModified(m, b, vp, dirty) ==
    LET c == CaseOf(m, b)
    IN  CASE c = 1 -> [case |-> c, status |-> "completed", modified |-> TRUE,
                       call |-> "none", verify |-> FALSE]
          [] c = 2 -> [case |-> c, status |-> m, modified |-> TRUE,
                       call |-> "close", verify |-> FALSE]
          [] c = 3 -> [case |-> c, status |-> m, modified |-> FALSE,
                       call |-> "update", verify |-> FALSE]
          [] c = 4 -> [case |-> c, status |-> "pending", modified |-> TRUE,
                       call |-> "none", verify |-> FALSE]
          [] c = 5 -> IF CrashRecovered(vp, dirty)
                      THEN [case |-> c, status |-> "completed", modified |-> TRUE,
                            call |-> "close", verify |-> TRUE]
                      ELSE [case |-> c, status |-> "pending", modified |-> TRUE,
                            call |-> "update", verify |-> TRUE]
          [] c = 6 -> [case |-> c, status |-> "pending", modified |-> TRUE,
                       call |-> "update", verify |-> FALSE]
          [] OTHER -> [case |-> c, status |-> m, modified |-> FALSE,
                       call |-> "none", verify |-> FALSE]

\* A faulty table whose Case 5 marks the work that did not verify as failed.
DecideMarksFailed(m, b, vp, dirty) ==
    LET c == CaseOf(m, b)
    IN  CASE c = 1 -> [case |-> c, status |-> "completed", modified |-> TRUE,
                       call |-> "none", verify |-> FALSE]
          [] c = 2 -> [case |-> c, status |-> m, modified |-> FALSE,
                       call |-> "close", verify |-> FALSE]
          [] c = 3 -> [case |-> c, status |-> m, modified |-> FALSE,
                       call |-> "update", verify |-> FALSE]
          [] c = 4 -> [case |-> c, status |-> "pending", modified |-> TRUE,
                       call |-> "none", verify |-> FALSE]
          [] c = 5 -> IF CrashRecovered(vp, dirty)
                      THEN [case |-> c, status |-> "completed", modified |-> TRUE,
                            call |-> "close", verify |-> TRUE]
                      ELSE [case |-> c, status |-> "failed", modified |-> TRUE,
                            call |-> "update", verify |-> TRUE]
          [] c = 6 -> [case |-> c, status |-> "pending", modified |-> TRUE,
                       call |-> "update", verify |-> FALSE]
          [] OTHER -> [case |-> c, status |-> m, modified |-> FALSE,
                       call |-> "none", verify |-> FALSE]

\* What the branch taken does to one entry: the new entry.status, whether
\* `modified` is set, the tracker call made, and whether the verification
\* command is run.
Decide(m, b, vp, dirty) ==
    LET c == CaseOf(m, b)
    IN  CASE c = 1 -> [case |-> c, status |-> "completed", modified |-> TRUE,
                       call |-> "none", verify |-> FALSE]
          [] c = 2 -> [case |-> c, status |-> m, modified |-> FALSE,
                       call |-> "close", verify |-> FALSE]
          [] c = 3 -> [case |-> c, status |-> m, modified |-> FALSE,
                       call |-> "update", verify |-> FALSE]
          [] c = 4 -> [case |-> c, status |-> "pending", modified |-> TRUE,
                       call |-> "none", verify |-> FALSE]
          [] c = 5 -> IF CrashRecovered(vp, dirty)
                      THEN [case |-> c, status |-> "completed", modified |-> TRUE,
                            call |-> "close", verify |-> TRUE]
                      ELSE [case |-> c, status |-> "pending", modified |-> TRUE,
                            call |-> "update", verify |-> TRUE]
          [] c = 6 -> [case |-> c, status |-> "pending", modified |-> TRUE,
                       call |-> "update", verify |-> FALSE]
          [] OTHER -> [case |-> c, status |-> m, modified |-> FALSE,
                       call |-> "none", verify |-> FALSE]

\* updateBeadsStatus(id, "open") / closeBeadsTask(id): the task's status after
\* the call, which changes it only when bd succeeds.
BeadsAfter(call, ok, b) ==
    IF ~ok THEN b
    ELSE IF call = "close" THEN "closed"
    ELSE IF call = "update" THEN "open"
    ELSE b

CallLog(call, ok) ==
    IF call = "none" THEN "none"
    ELSE IF call = "close" THEN (IF ok THEN "close_ok" ELSE "close_failed")
    ELSE (IF ok THEN "update_ok" ELSE "update_failed")

\* What the pass prints about a bd update / bd close call: the line logged
\* before the call and the action pushed to `results` after it.  The boolean
\* the call returns is not looked at.
ResultAction(call, ok) ==
    IF call = "close" THEN "close_beads"
    ELSE IF call = "update" THEN "reset_beads"
    ELSE "none"

\* What manifest.jsonl can hold when writeFileSync is cut short (the process
\* is killed, or the write fails, after the file was truncated): k whole
\* lines of the new content, followed or not by a piece of the next line.
TornWrites(new) ==
    { [manifest |-> SubSeq(new, 1, k), corrupt |-> cut] :
        k \in 0..(Len(new) - 1), cut \in BOOLEAN }

\* A faulty summary without the in_progress check.
SummaryExitAlwaysZero(es) == 0

\* Step 7: process.exit(2) when an entry is still in_progress, else return.
SummaryExit(es) ==
    IF \E i \in DOMAIN es : es[i].status = "in_progress" THEN 2 ELSE 0

\* No external change between passes: a verification command, and git status,
\* answer every time what they answered the first time they were run.
VerifyAnswers(known) == IF known = "unrun" THEN {"pass", "fail"} ELSE {known}
GitAnswers(known) == IF known = "unread" THEN {"clean", "dirty"} ELSE {known}

\* A faulty Step 1 that goes on after a failed sync.
AfterSyncIgnoresFailure(ok) == "read"

\* Step 1: the pass goes on after `bd sync` only when it succeeded.
AfterSync(ok) == IF ok THEN "read" ELSE "exit"

\* No Stop hook has run.
\* .reflect-state.json as loadState returns it when the file is missing.
DEFAULT_STATE ==
    [enabled |-> FALSE, lastReflection |-> "null", totalLearnings |-> 0]

NoSkillFile == [exists |-> FALSE, sections |-> 0]

ReflectSnapshot ==
    [reflectState |-> reflectState, skillFile |-> skillFile,
     commits |-> commits]

ReflectNotRun ==
    /\ mode = "none"
    /\ reflectState = DEFAULT_STATE
    /\ skillFile = NoSkillFile
    /\ commits = 0
    /\ learnings = <<>>
    /\ answer = "none"
    /\ before = ReflectSnapshot

ParNotRun == world = <<>> /\ world0 = <<>> /\ oracle = <<>>

DevopsNotRun == devops = <<>>

BumpNotRun == bump = <<>> /\ packageFiles = <<>>

StateNotRun == stateFile = <<>> /\ callers = <<>> /\ tally = <<>>

\* No other program of the repository runs.
ToolsIdle ==
    ReflectNotRun /\ ParNotRun /\ DevopsNotRun /\ BumpNotRun /\ StateNotRun

\* Every line of the manifest is complete, and no other program runs.
ElsewhereIdle == fields = [i \in Features |-> RequiredFields] /\ ToolsIdle

NotLoaded == [loaded |-> FALSE, null |-> TRUE, error |-> FALSE, keys |-> {}]

HookNotRun ==
    /\ tracked = <<>>
    /\ inProgress = <<>>
    /\ issues = <<>>
    /\ errors = <<>>
    /\ evaluated = <<>>
    /\ config = NotLoaded
    /\ stderr = <<>>

----------------------------------------------------------------------------
Init ==
    /\ manifest \in { [i \in Features |-> Entry(i, f[i])] :
                        f \in [Features -> AnyStatus] }
    /\ corrupt \in BOOLEAN
    /\ beads \in [Features -> BeadsStatuses \cup {Absent}]
    /\ verification = [i \in Features |-> "unrun"]
    /\ uncommitted = "unread"
    /\ pc = "sync"
    /\ exitCode = -1
    /\ entries = <<>>
    /\ idx = 1
    /\ modified = FALSE
    /\ synced = "no"
    /\ gitRead = "no"
    /\ shown = {}
    /\ ranVerify = {}
    /\ calls = NoCalls
    /\ nWrites = 0
    /\ pass = 1
    /\ start = Snapshot
    /\ origin = Snapshot
    /\ prev = NoPrev
    /\ dependsOn = [i \in Features |-> {}]
    /\ cur = 0
    /\ verified = "none"
    /\ HookNotRun
    /\ ElsewhereIdle

disk == <<manifest, corrupt>>
locals == <<entries, idx, modified>>
log == <<synced, gitRead, shown, ranVerify, calls, nWrites>>
hist == <<pass, start, origin, prev>>
orchVars == <<cur, verified>>
hookVars == <<tracked, inProgress, issues, errors, evaluated, config, stderr>>
\* What only the other programs of the repository write.
reflectVars ==
    <<mode, reflectState, skillFile, commits, learnings, answer, before>>
parVars == <<world, world0, oracle>>
bumpVars == <<bump, packageFiles>>
stateVars == <<stateFile, callers, tally>>

elsewhere == <<fields, reflectVars, parVars, devops, bumpVars, stateVars>>
\* What reconcile-state.ts neither reads nor writes.
others == <<dependsOn, orchVars, hookVars, elsewhere>>

\* The process's memory, before reconcile fills it and once the process is gone.
NoLocals ==
    /\ entries' = <<>>
    /\ idx' = 1
    /\ modified' = FALSE

\* process.exit(code)
Exit(code) == pc' = "done" /\ exitCode' = code /\ NoLocals

\* A bd command, a git command or a manifest write of this pass failed.
PassFailed ==
    \/ synced = "failed"
    \/ gitRead = "failed"
    \/ \E i \in Features : calls[i] \in FailedCalls
    \/ (pc = "done" /\ exitCode = 1 /\ nWrites > 0)

\* This pass called bd update / bd close or wrote manifest.jsonl.
PassActed == calls # NoCalls \/ nWrites > 0

\* Step 1: bd sync; a failure exits 1.
Sync ==
    /\ pc = "sync"
    /\ \E ok \in BOOLEAN :
        /\ synced' = IF ok THEN "ok" ELSE "failed"
        /\ IF AfterSync(ok) = "read"
           THEN pc' = "read" /\ UNCHANGED <<exitCode, locals>>
           ELSE Exit(1)
    /\ UNCHANGED <<disk, beads, env, gitRead, shown, ranVerify, calls, nWrites, hist, others>>

\* Step 2: read manifest.jsonl; null exits 1.
Read ==
    /\ pc = "read"
    /\ LET r == ReadManifest(manifest, corrupt)
       IN  IF r.null
           THEN Exit(1)
           ELSE /\ pc' = "validate"
                /\ entries' = r.entries
                /\ UNCHANGED <<exitCode, idx, modified>>
    /\ UNCHANGED <<disk, beads, env, log, hist, others>>

\* Step 3: validate every entry; any error exits 1.
Validate ==
    /\ pc = "validate"
    /\ IF \A i \in DOMAIN entries : ValidateManifestEntry(entries[i], fields[i])
       THEN pc' = "git" /\ UNCHANGED <<exitCode, locals>>
       ELSE Exit(1)
    /\ UNCHANGED <<disk, beads, env, log, hist, others>>

\* Step 4: checkGitState; a failing git command throws, and main exits 1.
\* gitState.uncommitted is what git answers here; as git answers the same in
\* every pass, the model fixes the answer (uncommitted) where the loop first
\* looks at it.
CheckGit ==
    /\ pc = "git"
    /\ \E ok \in BOOLEAN :
        /\ gitRead' = IF ok THEN "ok" ELSE "failed"
        /\ IF ok
           THEN /\ idx' = 1
                /\ pc' = IF Len(entries) = 0 THEN "write" ELSE "loop"
                /\ UNCHANGED <<exitCode, entries, modified>>
           ELSE Exit(1)
    /\ UNCHANGED <<disk, beads, env, synced, shown, ranVerify, calls, nWrites, hist, others>>

\* A faulty lookup that asks for the first feature's task whatever the id.
GetBeadsStatusOfFirst(taskId) == beads[1]

\* getBeadsStatus(entry.beads_id): the status bd show prints for the task, or
\* null (Absent).
GetBeadsStatus(taskId) == beads[taskId]

\* Step 5: one iteration of the for loop over the entries.
ReconcileEntry ==
    /\ pc = "loop"
    /\ LET e == entries[idx]
           b == GetBeadsStatus(e.id)
           runs == b # Absent /\ Decide(e.status, b, TRUE, FALSE).verify
       IN  /\ shown' = shown \cup {e.id}
           /\ \E v \in (IF runs THEN VerifyAnswers(verification[e.id])
                                ELSE {verification[e.id]}) :
             \E g \in (IF runs /\ v = "pass" THEN GitAnswers(uncommitted)
                                             ELSE {uncommitted}) :
                LET d == Decide(e.status, b, v = "pass", g = "dirty")
                IN  /\ verification' = [verification EXCEPT ![e.id] = v]
                    /\ uncommitted' = g
                    /\ IF Skips(b)
                       THEN UNCHANGED <<entries, modified, beads, calls, ranVerify>>
                       ELSE /\ entries' = [entries EXCEPT ![idx].status = d.status]
                            /\ modified' = (modified \/ d.modified)
                            /\ ranVerify' = IF d.verify THEN ranVerify \cup {e.id}
                                            ELSE ranVerify
                            /\ \E ok \in (IF d.call = "none" THEN {TRUE}
                                                              ELSE BOOLEAN) :
                                 /\ beads' = [beads EXCEPT
                                                ![e.id] = BeadsAfter(d.call, ok, b)]
                                 /\ calls' = [calls EXCEPT
                                                ![e.id] = CallLog(d.call, ok)]
    /\ idx' = idx + 1
    /\ pc' = IF idx + 1 > Len(entries) THEN "write" ELSE "loop"
    /\ UNCHANGED <<disk, exitCode, synced, gitRead, nWrites, hist, others>>

\* Step 6: writeManifest when modified.  writeFileSync either completes, or
\* throws (main then exits 1) leaving the file as it was or torn.
WriteManifest ==
    /\ pc = "write"
    /\ IF ~modified
       THEN pc' = "summary" /\ UNCHANGED <<disk, exitCode, nWrites, locals>>
       ELSE /\ nWrites' = nWrites + 1
            /\ \/ /\ manifest' = entries
                  /\ corrupt' = FALSE
                  /\ pc' = "summary"
                  /\ UNCHANGED <<exitCode, locals>>
               \/ /\ \E t \in TornWrites(entries) \cup
                               {[manifest |-> manifest, corrupt |-> corrupt]} :
                        manifest' = t.manifest /\ corrupt' = t.corrupt
                  /\ Exit(1)
    /\ UNCHANGED <<beads, env, synced, gitRead, shown, ranVerify, calls, hist, others>>

\* Step 7: summary and exit code.
Summary ==
    /\ pc = "summary"
    /\ Exit(SummaryExit(entries))
    /\ UNCHANGED <<disk, beads, env, log, hist, others>>

\* reconcile-state.ts is started again on the same plan directory: a new
\* process, with nothing kept from the pass that ended by `how`.
Begin(how) ==
    /\ pass < MaxPasses
    /\ pass' = pass + 1
    /\ prev' = [how |-> how, exit |-> exitCode,
                failed |-> PassFailed \/ (how = "killed" /\ prev.how = "killed"
                                                       /\ prev.failed),
                acted |-> how = "done" /\ PassActed,
                afterFailed |-> /\ prev.how = "done"
                                /\ prev.exit \in {0, 2}
                                /\ prev.failed]
    /\ start' = Snapshot'
    /\ origin' = IF how = "killed" THEN origin ELSE Snapshot'
    /\ pc' = "sync"
    /\ exitCode' = -1
    /\ NoLocals
    /\ synced' = "no"
    /\ gitRead' = "no"
    /\ shown' = {}
    /\ ranVerify' = {}
    /\ calls' = NoCalls
    /\ nWrites' = 0
    /\ cur' = 0
    /\ verified' = "none"

\* The process has exited and reconcile is run again.
Rerun ==
    /\ pc = "done"
    /\ UNCHANGED <<disk, beads, env, dependsOn, hookVars, elsewhere>>
    /\ Begin("done")

\* The process is killed between two steps, and reconcile is run again.
Kill ==
    /\ pc # "done"
    /\ UNCHANGED <<disk, beads, env, dependsOn, hookVars, elsewhere>>
    /\ Begin("killed")

\* The process is killed inside writeFileSync, and reconcile is run again.
KillDuringWrite ==
    /\ pc = "write"
    /\ modified
    /\ \E t \in TornWrites(entries) :
        manifest' = t.manifest /\ corrupt' = t.corrupt
    /\ UNCHANGED <<beads, env, dependsOn, hookVars, elsewhere>>
    /\ Begin("killed")

Next ==
    \/ Sync
    \/ Read
    \/ Validate
    \/ CheckGit
    \/ ReconcileEntry
    \/ WriteManifest
    \/ Summary
    \/ Kill
    \/ KillDuringWrite
    \/ Rerun

Spec == Init /\ [][Next]_vars

----------------------------------------------------------------------------
(* /plan-orchestrate (commands/plan-orchestrate.md): step 2 runs            *)
(* reconcile-state.ts, step 4 executes the features one at a time.          *)

\* A faulty reading of reconcile's exit code that also goes on after exit 2.
SafeToProceedUnlessFatal(code) == code \in {0, 2}

\* reconcile's exit codes: 0 is "safe to proceed", 1 and 2 are not.
SafeToProceed(code) == code = 0

\* Every feature id of depends_on has a line with status completed.
DepsCompleted(es, deps) ==
    \A d \in deps : \E j \in DOMAIN es : es[j].id = d /\ es[j].status = "completed"

\* A faulty choice that takes any pending feature.
ReadyIgnoresDependencies(es, deps, i) == es[i].status = "pending"

\* Step 4, "for each pending feature", in dependency order: line i can be
\* executed next.
Ready(es, deps, i) ==
    es[i].status = "pending" /\ DepsCompleted(es, deps[es[i].id])

\* A faulty step 4f/4g that marks the feature completed whatever the verdict.
AfterVerificationTrustsAgent(ok) == "completed"

\* Steps 4f and 4g: the manifest status after verify-feature.ts answered.
AfterVerification(ok) == IF ok THEN "completed" ELSE "failed"

\* depends_on relations without a cycle, the features being numbered in
\* dependency order (F000, F001, ...): a feature depends on earlier ones.
Acyclic(deps) == \A i \in Features : \A d \in deps[i] : d < i

\* A plan as /plan-optimize leaves it: every feature pending, with a Beads
\* task of its own: open, unless it was closed by hand since or bd does not
\* find it.
InitOrch ==
    /\ manifest = [i \in Features |-> Entry(i, "pending")]
    /\ corrupt = FALSE
    /\ beads \in [Features -> {"open", "closed", Absent}]
    /\ verification = [i \in Features |-> "unrun"]
    /\ uncommitted = "unread"
    /\ pc = "sync"
    /\ exitCode = -1
    /\ entries = <<>>
    /\ idx = 1
    /\ modified = FALSE
    /\ synced = "no"
    /\ gitRead = "no"
    /\ shown = {}
    /\ ranVerify = {}
    /\ calls = NoCalls
    /\ nWrites = 0
    /\ pass = 1
    /\ start = Snapshot
    /\ origin = Snapshot
    /\ prev = NoPrev
    /\ dependsOn \in { d \in [Features -> SUBSET Features] : Acyclic(d) }
    /\ cur = 0
    /\ verified = "none"
    /\ HookNotRun
    /\ ElsewhereIdle

\* The positions of the orchestrator inside step 4.
LoopPcs == {"pick", "claim", "work", "verify", "close", "asked", "final"}

\* The log of a reconcile pass, before the pass and once it is of no use.
NoLog ==
    /\ synced' = "no"
    /\ gitRead' = "no"
    /\ shown' = {}
    /\ ranVerify' = {}
    /\ calls' = NoCalls
    /\ nWrites' = 0

\* Step 3: reconcile said it is safe to proceed; the context files are read.
LoadContext ==
    /\ pc = "done"
    /\ SafeToProceed(exitCode)
    /\ pc' = "pick"
    /\ NoLog
    /\ UNCHANGED <<disk, beads, env, exitCode, locals, hist, dependsOn, hookVars, elsewhere,
                   orchVars>>

\* Step 4a, first half: a feature that can be executed is marked in_progress
\* in the manifest; when there is none, the loop is over.
PickFeature ==
    /\ pc = "pick"
    /\ IF \E i \in DOMAIN manifest : Ready(manifest, dependsOn, i)
       THEN \E i \in DOMAIN manifest :
                /\ Ready(manifest, dependsOn, i)
                /\ manifest' = [manifest EXCEPT ![i].status = "in_progress"]
                /\ cur' = i
                /\ pc' = "claim"
       ELSE pc' = "final" /\ UNCHANGED <<manifest, cur>>
    /\ UNCHANGED <<corrupt, beads, env, exitCode, locals, log, hist, dependsOn, hookVars, elsewhere,
                   verified>>

\* Step 4a, second half: bd update <task> --status=in_progress, which may fail.
ClaimTask ==
    /\ pc = "claim"
    /\ LET id == manifest[cur].id
       IN  \E ok \in BOOLEAN :
               beads' = IF ok /\ beads[id] # Absent
                        THEN [beads EXCEPT ![id] = "in_progress"]
                        ELSE beads
    /\ pc' = "work"
    /\ UNCHANGED <<disk, env, exitCode, locals, log, hist, dependsOn, hookVars, elsewhere, orchVars>>

\* Steps 4b to 4d: the sub-agent works and the verification agent audits.
\* The work changes what the feature's verification command and git status
\* answer from now on.
SubAgent ==
    /\ pc = "work"
    /\ verification' = [verification EXCEPT ![manifest[cur].id] = "unrun"]
    /\ uncommitted' = "unread"
    /\ pc' = "verify"
    /\ UNCHANGED <<disk, beads, exitCode, locals, log, hist, dependsOn, hookVars, elsewhere,
                   orchVars>>

\* Step 4e, then the manifest half of 4f or 4g: verify-feature.ts answers and
\* the feature is marked completed or failed.
MechanicalVerification ==
    /\ pc = "verify"
    /\ \E ok \in BOOLEAN :
        /\ verified' = IF ok THEN "pass" ELSE "fail"
        /\ manifest' = [manifest EXCEPT ![cur].status = AfterVerification(ok)]
        /\ pc' = IF ok THEN "close" ELSE "asked"
    /\ UNCHANGED <<corrupt, beads, env, exitCode, locals, log, hist, dependsOn, hookVars, elsewhere,
                   cur>>

\* Step 4f, second half: bd close <task>, which may fail; on to the next
\* pending feature.
CloseTask ==
    /\ pc = "close"
    /\ LET id == manifest[cur].id
       IN  \E ok \in BOOLEAN :
               beads' = IF ok /\ beads[id] # Absent
                        THEN [beads EXCEPT ![id] = "closed"]
                        ELSE beads
    /\ pc' = "pick"
    /\ cur' = 0
    /\ verified' = "none"
    /\ UNCHANGED <<disk, env, exitCode, locals, log, hist, dependsOn, hookVars, elsewhere>>

\* Step 4g: the failure was reported and the user says to go on with the
\* other features.
AskUser ==
    /\ pc = "asked"
    /\ pc' = "pick"
    /\ cur' = 0
    /\ verified' = "none"
    /\ UNCHANGED <<disk, beads, env, exitCode, locals, log, hist, dependsOn, hookVars, elsewhere>>

\* /plan-orchestrate is started again on the same plan directory: step 2
\* runs reconcile, and nothing is kept of the run before.
Restart ==
    /\ pass < MaxPasses
    /\ pass' = pass + 1
    /\ pc' = "sync"
    /\ exitCode' = -1
    /\ NoLocals
    /\ NoLog
    /\ cur' = 0
    /\ verified' = "none"
    /\ UNCHANGED <<start, origin, prev, dependsOn, hookVars, elsewhere>>

\* reconcile exited, with a code other than 0 or not, and the command is run
\* again.
RunAgain ==
    /\ pc = "done"
    /\ UNCHANGED <<disk, beads, env>>
    /\ Restart

\* The run is killed between two steps, and the command is run again.
Crash ==
    /\ pc # "done"
    /\ UNCHANGED <<disk, beads, env>>
    /\ Restart

\* The run is killed inside reconcile's writeFileSync, and the command is run
\* again.
CrashDuringWrite ==
    /\ pc = "write"
    /\ modified
    /\ \E t \in TornWrites(entries) :
        manifest' = t.manifest /\ corrupt' = t.corrupt
    /\ UNCHANGED <<beads, env>>
    /\ Restart

NextOrch ==
    \/ Sync
    \/ Read
    \/ Validate
    \/ CheckGit
    \/ ReconcileEntry
    \/ WriteManifest
    \/ Summary
    \/ LoadContext
    \/ PickFeature
    \/ ClaimTask
    \/ SubAgent
    \/ MechanicalVerification
    \/ CloseTask
    \/ AskUser
    \/ RunAgain
    \/ Crash
    \/ CrashDuringWrite

SpecOrch == InitOrch /\ [][NextOrch]_vars

----------------------------------------------------------------------------
(* One reconcile pass over a manifest whose lines may lack a field.         *)

\* A line as generated, or with one of its fields left out.
FieldSets == {RequiredFields} \cup {RequiredFields \ {f} : f \in RequiredFields}

InitValidate ==
    /\ manifest \in { [i \in Features |-> Entry(i, f[i])] :
                        f \in [Features -> {"pending", "failed", "bogus"}] }
    /\ corrupt = FALSE
    /\ beads \in [Features -> {"open", "closed"}]
    /\ verification = [i \in Features |-> "unrun"]
    /\ uncommitted = "unread"
    /\ pc = "sync"
    /\ exitCode = -1
    /\ entries = <<>>
    /\ idx = 1
    /\ modified = FALSE
    /\ synced = "no"
    /\ gitRead = "no"
    /\ shown = {}
    /\ ranVerify = {}
    /\ calls = NoCalls
    /\ nWrites = 0
    /\ pass = 1
    /\ start = Snapshot
    /\ origin = Snapshot
    /\ prev = NoPrev
    /\ dependsOn = [i \in Features |-> {}]
    /\ cur = 0
    /\ verified = "none"
    /\ HookNotRun
    /\ fields \in [Features -> FieldSets]
    /\ ToolsIdle

NextOnePass ==
    \/ Sync
    \/ Read
    \/ Validate
    \/ CheckGit
    \/ ReconcileEntry
    \/ WriteManifest
    \/ Summary

SpecValidate == InitValidate /\ [][NextOnePass]_vars

----------------------------------------------------------------------------
(* The Stop hook (verification/verify-stop.ts).                             *)

\* Titles of tracker items, as sequences of characters.
TitleResearch == <<"R", "e", "s", "e", "a", "r", "c", "h", ":", " ", "x">>
TitleRESEARCH == <<"R", "E", "S", "E", "A", "R", "C", "H", ":", "x">>
TitleResearching == <<"R", "e", "s", "e", "a", "r", "c", "h", "i", "n", "g">>
TitleFix == <<"F", "i", "x", " ", "x">>

\* String.prototype.toLowerCase, on the letters the titles are made of.
LowerCaseOf(c) ==
    CASE c = "R" -> "r" [] c = "E" -> "e" [] c = "S" -> "s" [] c = "A" -> "a"
      [] c = "C" -> "c" [] c = "H" -> "h" [] c = "F" -> "f" [] OTHER -> c

ToLowerCase(t) == [k \in DOMAIN t |-> LowerCaseOf(t[k])]

\* String.prototype.startsWith
StartsWith(t, prefix) ==
    Len(t) >= Len(prefix) /\ SubSeq(t, 1, Len(prefix)) = prefix

ResearchPrefix == <<"r", "e", "s", "e", "a", "r", "c", "h", ":">>

\* A BeadsItem in the tracker: its issue_type and title, the issue types of
\* its dependents (children), and, for a task, the first feature among its
\* dependencies: "none", or a feature that is "unplanned" (isFeaturePlanned
\* is false), "planned" (and not optimized) or "optimized" (both).  show
\* says whether `bd show` answers for the item and its dependencies.
Item(type, title, children, parent) ==
    [issue_type |-> type, title |-> title, children |-> children,
     parent |-> parent, show |-> TRUE]

\* The same item when `bd show` fails or prints no array.
Unshown(item) == [item EXCEPT !.show = FALSE]

Items ==
    { Item("bug", t, {}, "none") : t \in {TitleResearch, TitleFix} }
    \cup { Item("feature", TitleFix, ch, "none") : ch \in {{}, {"task"}} }
    \cup { Item("feature", TitleResearch, {}, "none") }
    \cup { Item("epic", TitleFix, ch, "none") : ch \in SUBSET {"feature", "task"} }
    \cup { Item("task", t, {}, "unplanned") :
             t \in {TitleResearch, TitleRESEARCH, TitleResearching} }
    \cup { Item("task", TitleFix, {}, p) :
             p \in {"none", "unplanned", "planned", "optimized"} }
    \cup { Item("chore", TitleFix, {}, "none") }
    \cup { Unshown(Item("task", TitleFix, {}, "unplanned")) }

\* Number of tracker items in progress at once.
MaxItems == 2

ItemLists == UNION { [1..n -> Items] : n \in 0..MaxItems }

\* getInProgressItems: what bd list returns, or [] when the command fails.
GetInProgressItems(list, ok) == IF ok THEN list ELSE <<>>

\* isResearchTask
IsResearchTask(item) ==
    item.issue_type = "task"
        /\ StartsWith(ToLowerCase(item.title), ResearchPrefix)

\* getItem returns the full item, and not null.
GetItemAnswers(item) == item.show

\* isMasterPlanEpic: feature children and no direct task child.
IsMasterPlanEpic(item) ==
    /\ item.issue_type = "epic"
    /\ GetItemAnswers(item)
    /\ "feature" \in item.children
    /\ "task" \notin item.children

\* getParentFeature: the first feature among the dependencies of a task,
\* "none" when there is none or when getItem returns null.
GetParentFeature(item) ==
    IF item.issue_type # "task" THEN "none"
    ELSE IF ~GetItemAnswers(item) THEN "none"
    ELSE item.parent

\* The body of checkWorkflowCompliance's loop: the issue pushed for an item,
\* or "none".
IssueFor(item) ==
    IF item.issue_type = "bug" THEN "none"
    ELSE IF item.issue_type = "feature" THEN "feature_directly"
    ELSE IF item.issue_type = "epic"
         THEN (IF IsMasterPlanEpic(item) THEN "master_epic_directly"
                                         ELSE "epic_directly")
    ELSE IF item.issue_type = "task"
         THEN (IF IsResearchTask(item) THEN "none"
               ELSE IF GetParentFeature(item) = "none" THEN "none"
               ELSE IF GetParentFeature(item) = "unplanned"
                    THEN "unplanned_feature"
               ELSE IF GetParentFeature(item) = "planned"
                    THEN "unoptimized_feature"
               ELSE "none")
    ELSE "none"

\* checkWorkflowCompliance: the issues, in the order of the items.
CheckWorkflowCompliance(items) ==
    LET flagged == SelectSeq(items, LAMBDA it : IssueFor(it) # "none")
    IN  [k \in DOMAIN flagged |->
            [item |-> flagged[k], issue |-> IssueFor(flagged[k])]]

\* The keys of .planconfig, in the order of gates 2 to 6.
CommandKeys ==
    <<"build_command", "test_command", "lint_command", "format_command",
      "static_analysis_command">>

CommandKeySet == {CommandKeys[k] : k \in DOMAIN CommandKeys}

\* getVerificationCommands: the configured commands, in gate order.
GetVerificationCommands(keys) == SelectSeq(CommandKeys, LAMBDA k : k \in keys)

\* What loadConfig can return: a config with some keys set, or no config,
\* each with or without an error.
Configs ==
    { [loaded |-> TRUE, null |-> FALSE, error |-> e, keys |-> K] :
        e \in BOOLEAN, K \in SUBSET CommandKeySet }
    \cup { [loaded |-> TRUE, null |-> TRUE, error |-> e, keys |-> {}] :
             e \in BOOLEAN }

\* A faulty gate result that pushes an error for every gate evaluated.
GateErrorAlways(name, passed) == <<name>>

\* `if (!passed) errors.push(...)`: what a gate adds to errors.  The pushed
\* string holds the gate's name and its output; the name stands for it.
GateError(name, passed) == IF passed THEN <<>> ELSE <<name>>

Evaluation(name, result) == [gate |-> name, result |-> result]

\* A faulty end of main that closes the tasks of completed features.
AllGatesPassedClosesCompleted(m, b) ==
    [id \in DOMAIN b |->
        IF \E i \in DOMAIN m : m[i].id = id /\ m[i].status = "completed"
        THEN "closed" ELSE b[id]]

\* "All gates passed": the tracker after main's last lines, which call
\* process.exit(0) and nothing else.
AllGatesPassed(m, b) == b

\* The Stop hook starts in a session whose plan has features in any of two
\* states, with their tasks open or closed.
InitStop ==
    /\ manifest \in { [i \in Features |-> Entry(i, f[i])] :
                        f \in [Features -> {"pending", "completed"}] }
    /\ corrupt = FALSE
    /\ beads \in [Features -> {"open", "closed"}]
    /\ verification = [i \in Features |-> "unrun"]
    /\ uncommitted = "unread"
    /\ pc = "gate0"
    /\ exitCode = -1
    /\ entries = <<>>
    /\ idx = 1
    /\ modified = FALSE
    /\ synced = "no"
    /\ gitRead = "no"
    /\ shown = {}
    /\ ranVerify = {}
    /\ calls = NoCalls
    /\ nWrites = 0
    /\ pass = 1
    /\ start = Snapshot
    /\ origin = Snapshot
    /\ prev = NoPrev
    /\ dependsOn = [i \in Features |-> {}]
    /\ cur = 0
    /\ verified = "none"
    /\ HookNotRun
    /\ ElsewhereIdle

\* What the Stop hook neither reads nor writes, and the tracker and manifest
\* aside.
notHook == <<corrupt, env, locals, log, hist, dependsOn, orchVars, elsewhere>>

\* Gate 0: checkWorkflowCompliance.
WorkflowGate ==
    /\ pc = "gate0"
    /\ \E list \in ItemLists, ok \in BOOLEAN :
        LET found == CheckWorkflowCompliance(GetInProgressItems(list, ok))
        IN  /\ tracked' = list
            /\ inProgress' = GetInProgressItems(list, ok)
            /\ issues' = found
            /\ errors' = errors \o GateError("workflow", Len(found) = 0)
            /\ evaluated' = Append(evaluated,
                    Evaluation("workflow",
                               IF Len(found) = 0 THEN "pass" ELSE "fail"))
    /\ pc' = "gate1"
    /\ UNCHANGED <<manifest, beads, exitCode, config, stderr, notHook>>

\* Gate 1: checkUncommittedChanges.  A failing git command throws, and
\* main().catch writes "Verification error" and exits 2.
UncommittedGate ==
    /\ pc = "gate1"
    /\ tracked' = <<>>
    /\ inProgress' = <<>>
    /\ issues' = <<>>
    /\ \E git \in {"clean", "dirty", "threw"} :
        /\ evaluated' = Append(evaluated,
                Evaluation("uncommitted",
                           CASE git = "clean" -> "pass"
                             [] git = "dirty" -> "fail"
                             [] OTHER -> "threw"))
        /\ IF git = "threw"
           THEN /\ stderr' = <<"Verification error">>
                /\ pc' = "done"
                /\ exitCode' = 2
                /\ UNCHANGED errors
           ELSE /\ errors' = errors \o GateError("uncommitted", git = "clean")
                /\ pc' = "config"
                /\ UNCHANGED <<stderr, exitCode>>
    /\ UNCHANGED <<manifest, beads, config, notHook>>

\* loadConfig, and the error pushed for a configuration error.
LoadConfig ==
    /\ pc = "config"
    /\ \E c \in Configs :
        /\ config' = c
        /\ errors' = errors \o GateError("config", ~c.error)
        /\ pc' = IF ~c.null /\ Len(GetVerificationCommands(c.keys)) > 0
                 THEN "commands" ELSE "agent"
    /\ UNCHANGED <<manifest, beads, exitCode, tracked, inProgress, issues,
                   evaluated, stderr, notHook>>

\* The command gates run so far (gates 0 and 1 come before them).
CommandsRun == Len(evaluated) - 2

\* Gates 2 to 6: one iteration of the loop over the configured commands.
RunCommand ==
    /\ pc = "commands"
    /\ LET commands == GetVerificationCommands(config.keys)
           name == commands[CommandsRun + 1]
       IN  /\ \E success \in BOOLEAN :
                /\ errors' = errors \o GateError(name, success)
                /\ evaluated' = Append(evaluated,
                        Evaluation(name, IF success THEN "pass" ELSE "fail"))
           /\ pc' = IF CommandsRun + 1 = Len(commands) THEN "agent"
                                                        ELSE "commands"
    /\ UNCHANGED <<manifest, beads, exitCode, tracked, inProgress, issues,
                   config, stderr, notHook>>

\* Gate 7: runVerificationAgent.
VerificationAgent ==
    /\ pc = "agent"
    /\ \E passed \in BOOLEAN :
        /\ errors' = errors \o GateError("agent", passed)
        /\ evaluated' = Append(evaluated,
                Evaluation("agent", IF passed THEN "pass" ELSE "fail"))
    /\ pc' = "decide"
    /\ UNCHANGED <<manifest, beads, exitCode, tracked, inProgress, issues,
                   config, stderr, notHook>>

\* The end of main: exit 2 with the errors on the error stream, or exit 0.
ExitHook ==
    /\ pc = "decide"
    /\ IF Len(errors) > 0
       THEN /\ stderr' = errors
            /\ exitCode' = 2
            /\ UNCHANGED beads
       ELSE /\ beads' = AllGatesPassed(manifest, beads)
            /\ exitCode' = 0
            /\ UNCHANGED stderr
    /\ pc' = "done"
    /\ UNCHANGED <<manifest, tracked, inProgress, issues, errors, evaluated,
                   config, notHook>>

NextStop ==
    \/ WorkflowGate
    \/ UncommittedGate
    \/ LoadConfig
    \/ RunCommand
    \/ VerificationAgent
    \/ ExitHook

SpecStop == InitStop /\ [][NextStop]_vars

----------------------------------------------------------------------------
\* The pass ran to the end of reconcile (step 7).
Finished == pc = "done" /\ exitCode \in {0, 2}

\* The pair (manifest status, tracker status) of line i of manifest.jsonl.
Pair(i) == <<manifest[i].status, beads[manifest[i].id]>>

\* The same pair when this pass started.
StartPair(i) == <<start.manifest[i].status, start.beads[start.manifest[i].id]>>

Consistent == {<<"pending", "open">>, <<"completed", "closed">>}

\* The bd update / bd close call this pass made for line i.
CallFor(i) == calls[manifest[i].id]

DiskUnchanged == manifest = start.manifest /\ corrupt = start.corrupt

(* C1, as stated: after a pass that processed every feature and finished,   *)
(* every feature's pair is (pending, open) or (completed, closed).          *)
C1_EveryPairConsistent ==
    Finished => \A i \in DOMAIN manifest : Pair(i) \in Consistent

(* C1, amended: after a pass that processed every feature and finished,     *)
(* every feature whose tracker status was found and whose bd update / bd    *)
(* close call (if one was made) succeeded has the pair (pending, open) or   *)
(* (completed, closed).                                                     *)
C1_KnownPairsConsistent ==
    Finished =>
        \A i \in DOMAIN manifest :
            (StartPair(i)[2] # Absent /\ CallFor(i) \notin FailedCalls)
                => Pair(i) \in Consistent

\* A finished pass that found every task, had no failing call, and repaired
\* every feature from an inconsistent pair.
C1_Witness ==
    /\ Finished
    /\ \A i \in DOMAIN manifest :
        /\ StartPair(i)[2] # Absent
        /\ CallFor(i) \notin FailedCalls
        /\ StartPair(i) \notin Consistent
        /\ Pair(i) \in Consistent

\* The previous pass ran to the end of reconcile.
PrevFinished == prev.how = "done" /\ prev.exit \in {0, 2}

\* This pass changed nothing: no bd update / bd close, no manifest write.
ChangedNothing == calls = NoCalls /\ nWrites = 0 /\ DiskUnchanged

(* C2, as stated (tracker calls read as the calls that change the tracker:  *)
(* every pass runs bd sync and bd show): a second pass right after a first  *)
(* one leaves manifest.jsonl identical and makes no bd update / bd close.   *)
C2_SecondPassChangesNothing ==
    (pc = "done" /\ PrevFinished) => ChangedNothing

(* C2, amended: when every bd update / bd close call of the first pass      *)
(* succeeded, a second pass right after it leaves manifest.jsonl identical  *)
(* and makes no bd update / bd close call.                                  *)
C2_SecondPassAfterCleanPass ==
    (pc = "done" /\ PrevFinished /\ ~prev.failed) => ChangedNothing

\* A second pass has ended after a first pass that finished with no failing
\* call and had repaired something.
C2_Witness ==
    /\ pc = "done"
    /\ PrevFinished
    /\ ~prev.failed
    /\ prev.acted
    /\ exitCode = 0

(* C3, as stated: a manifest with a line that is not valid JSON makes the   *)
(* pass exit 1 with no manifest write and no tracker call at all, bd sync   *)
(* included.                                                                *)
C3_CorruptNoTrackerCall ==
    (pc = "done" /\ start.corrupt) =>
        /\ exitCode = 1
        /\ nWrites = 0 /\ DiskUnchanged
        /\ synced = "no" /\ shown = {} /\ calls = NoCalls

(* C3, amended: a manifest with a line that is not valid JSON makes the     *)
(* pass exit 1 with no manifest write, no bd show, no bd update and no bd   *)
(* close; bd sync, which runs before the manifest is read, is the only      *)
(* tracker call of the pass.                                                *)
C3_CorruptOnlySync ==
    (pc = "done" /\ start.corrupt) =>
        /\ exitCode = 1
        /\ nWrites = 0 /\ DiskUnchanged
        /\ synced \in {"ok", "failed"} /\ shown = {} /\ calls = NoCalls
        /\ beads = start.beads

\* A pass on a corrupt manifest whose bd sync succeeded, with a feature to
\* repair, has exited.
C3_Witness ==
    /\ pc = "done"
    /\ start.corrupt
    /\ synced = "ok"
    /\ \E i \in DOMAIN manifest : Pair(i) \notin Consistent /\ Pair(i)[2] # Absent

(* C4: when bd sync fails the pass exits 1 having read no tracker status,   *)
(* called no bd update / bd close and not written the manifest.             *)
C4_SyncFailureAborts ==
    synced = "failed" =>
        /\ pc = "done" /\ exitCode = 1
        /\ shown = {} /\ calls = NoCalls /\ beads = start.beads
        /\ nWrites = 0 /\ DiskUnchanged

\* bd sync failed on a readable manifest that had a feature to repair.
C4_Witness ==
    /\ synced = "failed"
    /\ ~corrupt
    /\ \E i \in DOMAIN manifest : Pair(i) \notin Consistent /\ Pair(i)[2] # Absent

(* C5: whenever a pass exits with code 1, on any path, it performed no      *)
(* mutation: no tracker item was updated or closed and manifest.jsonl was   *)
(* not changed.                                                             *)
C5_ExitOneMeansNoMutation ==
    (pc = "done" /\ exitCode = 1) =>
        /\ beads = start.beads
        /\ calls = NoCalls
        /\ DiskUnchanged

\* Line i was failed when this pass started.
WasFailed(i) == StartPair(i)[1] = "failed"

(* C6, as stated: every feature that is failed when a pass starts is, for   *)
(* every tracker status, pending in the manifest and open in the tracker    *)
(* when the pass has finished.                                              *)
C6_FailedAlwaysReset ==
    Finished =>
        \A i \in DOMAIN manifest :
            WasFailed(i) => Pair(i) = <<"pending", "open">>

(* C6, amended: a feature that is failed when a pass starts is set to       *)
(* pending, and bd update --status=open is called for it (leaving the item  *)
(* open when the call succeeds), if its tracker status is open or           *)
(* in_progress; if the tracker item is closed the feature is set to         *)
(* completed and no tracker call is made; if the tracker status is absent   *)
(* the feature is skipped and stays failed.                                 *)
C6_FailedResetUnlessClosedOrAbsent ==
    Finished =>
        \A i \in DOMAIN manifest :
            WasFailed(i) =>
                CASE StartPair(i)[2] \in {"open", "in_progress"} ->
                        /\ manifest[i].status = "pending"
                        /\ CallFor(i) \in {"update_ok", "update_failed"}
                        /\ CallFor(i) = "update_ok" => Pair(i)[2] = "open"
                  [] StartPair(i)[2] = "closed" ->
                        /\ Pair(i) = <<"completed", "closed">>
                        /\ CallFor(i) = "none"
                  [] OTHER ->
                        /\ Pair(i) = <<"failed", Absent>>
                        /\ CallFor(i) = "none"

\* A finished pass has reset a failed feature whose task was in_progress.
C6_Witness ==
    /\ Finished
    /\ \E i \in DOMAIN manifest :
        /\ StartPair(i) = <<"failed", "in_progress">>
        /\ Pair(i) = <<"pending", "open">>

\* Line i was in_progress in both stores when this pass started.
WasMidFeature(i) == StartPair(i) = <<"in_progress", "in_progress">>

\* The verification command of line i exits 0 / exits non-zero.
VerificationPasses(i) == verification[manifest[i].id] = "pass"
VerificationFails(i) == verification[manifest[i].id] = "fail"

(* C7, as stated: a feature in_progress in both stores whose verification   *)
(* command exits 0, with a clean working tree, is completed in the manifest *)
(* and closed in the tracker when the pass has finished.                    *)
C7_CrashRecoveryCompletes ==
    Finished =>
        \A i \in DOMAIN manifest :
            (WasMidFeature(i) /\ VerificationPasses(i) /\ uncommitted = "clean")
                => Pair(i) = <<"completed", "closed">>

(* C7, amended: such a feature is completed in the manifest when the pass   *)
(* has finished and bd close was called for it; the tracker item is closed  *)
(* when that call succeeded.                                                *)
C7_CrashRecoveryCompletesIfClosed ==
    Finished =>
        \A i \in DOMAIN manifest :
            (WasMidFeature(i) /\ VerificationPasses(i) /\ uncommitted = "clean")
                => /\ manifest[i].status = "completed"
                   /\ CallFor(i) \in {"close_ok", "close_failed"}
                   /\ CallFor(i) = "close_ok" => Pair(i)[2] = "closed"

\* A finished pass has completed and closed a feature that was in_progress in
\* both stores.
C7_Witness ==
    /\ Finished
    /\ \E i \in DOMAIN manifest :
        /\ WasMidFeature(i) /\ VerificationPasses(i) /\ uncommitted = "clean"
        /\ Pair(i) = <<"completed", "closed">>

(* C8, as stated: a feature in_progress in both stores whose verification   *)
(* command exits non-zero, or with uncommitted changes in the working tree, *)
(* is pending in the manifest and open in the tracker when the pass has     *)
(* finished.                                                                *)
C8_CrashRecoveryResets ==
    Finished =>
        \A i \in DOMAIN manifest :
            (WasMidFeature(i) /\ (VerificationFails(i) \/ uncommitted = "dirty"))
                => Pair(i) = <<"pending", "open">>

(* C8, amended: such a feature is pending in the manifest (never completed) *)
(* when the pass has finished and bd update --status=open was called for    *)
(* it; the tracker item is open when that call succeeded.                   *)
C8_CrashRecoveryResetsIfUpdated ==
    Finished =>
        \A i \in DOMAIN manifest :
            (WasMidFeature(i) /\ (VerificationFails(i) \/ uncommitted = "dirty"))
                => /\ manifest[i].status = "pending"
                   /\ CallFor(i) \in {"update_ok", "update_failed"}
                   /\ CallFor(i) = "update_ok" => Pair(i)[2] = "open"

\* A finished pass has reset a feature whose verification command passes but
\* whose working tree holds uncommitted changes.
C8_Witness ==
    /\ Finished
    /\ \E i \in DOMAIN manifest :
        /\ WasMidFeature(i) /\ VerificationPasses(i) /\ uncommitted = "dirty"
        /\ Pair(i) = <<"pending", "open">>

\* manifest.jsonl holds a feature that is in_progress.
LeftInProgress == \E i \in DOMAIN manifest : manifest[i].status = "in_progress"

(* C9: reconcile never exits 0 while the manifest it leaves behind holds a  *)
(* feature in_progress; a pass that reaches its end with such a feature     *)
(* exits 2 (the manual-intervention warning).                               *)
C9_NoCleanExitWithInProgress ==
    /\ (pc = "done" /\ exitCode = 0) => ~LeftInProgress
    /\ Finished => (exitCode = 2 <=> LeftInProgress)

\* A pass has exited 2 leaving a feature in_progress (its task was not found).
C9_Witness == pc = "done" /\ exitCode = 2 /\ LeftInProgress

\* What an uninterrupted pass in which every command succeeds makes of the
\* manifest and the tracker of snapshot o.
Uninterrupted(o) ==
    IF ReadManifest(o.manifest, o.corrupt).null
       \/ \E i \in DOMAIN o.manifest : ~ValidateManifestEntry(o.manifest[i], fields[i])
    THEN o
    ELSE LET listed(i) == i \in DOMAIN o.manifest /\ o.beads[i] # Absent
             d(i) == Decide(o.manifest[i].status, o.beads[i],
                            verification[i] = "pass", uncommitted = "dirty")
         IN  [manifest |-> [i \in DOMAIN o.manifest |->
                              IF listed(i)
                              THEN [o.manifest[i] EXCEPT !.status = d(i).status]
                              ELSE o.manifest[i]],
              corrupt |-> FALSE,
              beads |-> [i \in Features |->
                           IF listed(i)
                           THEN BeadsAfter(d(i).call, TRUE, o.beads[i])
                           ELSE o.beads[i]]]

(* C10: when a pass is killed at any point and reconcile is then run again  *)
(* to its end, with no failing command in either run, the manifest and the  *)
(* tracker are what the first pass would have left had it not been killed.  *)
C10_RestartSameOutcome ==
    (pc = "done" /\ prev.how = "killed"
        /\ ~prev.failed /\ ~PassFailed)
    => Snapshot = Uninterrupted(origin)

----------------------------------------------------------------------------
\* The lines of manifest.jsonl whose status is in_progress.
InProgressLines == {i \in DOMAIN manifest : manifest[i].status = "in_progress"}

VerifiedBeforeCompleted ==
    pc \in LoopPcs =>
        /\ \A i \in DOMAIN manifest :
              (/\ i \in DOMAIN manifest'
               /\ manifest[i].status # "completed"
               /\ manifest'[i].status = "completed")
                  => (pc = "verify" /\ i = cur /\ verified' = "pass")
        /\ \A id \in Features :
              (beads[id] # "closed" /\ beads'[id] = "closed")
                  => (pc = "close" /\ id = manifest[cur].id /\ verified = "pass")
        /\ (pc = "verify" /\ verified' = "fail")
                  => manifest'[cur].status = "failed"

(* C13: a step of the feature loop marks a feature completed, or closes its *)
(* tracker task, only for the feature being executed and only when          *)
(* verify-feature.ts returned success for it; when it returned failure the  *)
(* step marks the feature failed.                                           *)
C13_CompletedOnlyIfVerified == [][VerifiedBeforeCompleted]_vars

\* The loop has marked a verified feature completed and is about to close its
\* task.
C13_Witness ==
    /\ pc = "close"
    /\ verified = "pass"
    /\ manifest[cur].status = "completed"
    /\ beads[manifest[cur].id] = "in_progress"
----------------------------------------------------------------------------
(* Reflect: the Stop hook reflect-hook.ts and the command reflect.ts.       *)

\* The plan directory and the tracker while no reconcile, orchestration or
\* gate pipeline runs.
PlanIdle ==
    /\ manifest = [i \in Features |-> Entry(i, "pending")]
    /\ corrupt = FALSE
    /\ beads = [i \in Features |-> "open"]
    /\ verification = [i \in Features |-> "unrun"]
    /\ uncommitted = "unread"
    /\ entries = <<>>
    /\ idx = 1
    /\ modified = FALSE
    /\ synced = "no"
    /\ gitRead = "no"
    /\ shown = {}
    /\ ranVerify = {}
    /\ calls = NoCalls
    /\ nWrites = 0
    /\ pass = 1
    /\ start = Snapshot
    /\ origin = Snapshot
    /\ prev = NoPrev
    /\ dependsOn = [i \in Features |-> {}]
    /\ cur = 0
    /\ verified = "none"

\* Learning.confidence
Confidences == {"high", "medium", "low"}

\* Number of learnings one analysis returns.
MaxLearnings == 2

LearningLists == UNION { [1..n -> Confidences] : n \in 0..MaxLearnings }

\* What analyzeConversation does: it throws, or returns a result that is
\* skipped or carries learnings.
AnalysisResults ==
    { [threw |-> TRUE, skipped |-> FALSE, learnings |-> <<>>],
      [threw |-> FALSE, skipped |-> TRUE, learnings |-> <<>>] }
    \cup { [threw |-> FALSE, skipped |-> FALSE, learnings |-> ls] :
             ls \in LearningLists }

\* result.learnings.filter((l) => l.confidence === "high")
HighConfidence(ls) == SelectSeq(ls, LAMBDA c : c = "high")

\* ensureSkillFile: the skill file found, or .claude/learnings.md created
\* with its header.
EnsureSkillFile(f) ==
    IF f.exists THEN f ELSE [exists |-> TRUE, sections |-> 0]

\* appendToSkillFile
AppendToSkillFile(f) == [exists |-> TRUE, sections |-> f.sections + 1]

\* A faulty recordReflection that stores the count of this session only.
RecordReflectionOverwrites(st, learningsCount) ==
    [st EXCEPT !.lastReflection = "now",
               !.totalLearnings = learningsCount]

\* recordReflection
RecordReflection(st, learningsCount) ==
    [st EXCEPT !.lastReflection = "now",
               !.totalLearnings = @ + learningsCount]

\* What prompt() returns: the line typed, trimmed and in lower case.
Answers == {"y", "yes", "n", "no", ""}

\* `answer !== "y" && answer !== "yes"` is false.
Approved(a) == a = "y" \/ a = "yes"

\* A faulty catch that blocks the stop.
CatchExitBlocks(message) == 2

\* main().catch of reflect-hook.ts: "Never block on errors".
CatchExit(message) == 0

InitReflect ==
    /\ PlanIdle
    /\ HookNotRun
    /\ fields = [i \in Features |-> RequiredFields]
    /\ pc = "start"
    /\ exitCode = -1
    /\ mode \in {"hook", "command"}
    /\ reflectState \in [enabled : BOOLEAN, lastReflection : {"null", "earlier"},
                         totalLearnings : {0, 1}]
    /\ skillFile \in {NoSkillFile} \cup [exists : {TRUE}, sections : {0, 1}]
    /\ commits = 0
    /\ learnings = <<>>
    /\ answer = "none"
    /\ before = ReflectSnapshot
    /\ ParNotRun
    /\ DevopsNotRun
    /\ BumpNotRun
    /\ StateNotRun

\* What reflect neither reads nor writes.
notReflect ==
    <<manifest, corrupt, beads, env, locals, log, hist, dependsOn, orchVars,
      tracked, inProgress, issues, errors, evaluated, config, fields, mode,
      before, parVars, devops, bumpVars, stateVars>>

ReflectExit(code) == pc' = "done" /\ exitCode' = code

\* The hook's main().catch.
HookCatch ==
    /\ stderr' = <<"Reflect hook error">>
    /\ ReflectExit(CatchExit("error"))

\* reflect-hook.ts 1: isEnabled.
HookCheckEnabled ==
    /\ mode = "hook"
    /\ pc = "start"
    /\ IF reflectState.enabled
       THEN pc' = "input" /\ UNCHANGED exitCode
       ELSE ReflectExit(0)
    /\ UNCHANGED <<stderr, reflectState, skillFile, commits, learnings, answer,
                   notReflect>>

\* reflect-hook.ts 2: readHookInput; no input or no transcript_path exits 0.
HookReadInput ==
    /\ mode = "hook"
    /\ pc = "input"
    /\ \E hasPath \in BOOLEAN :
        IF hasPath THEN pc' = "transcript" /\ UNCHANGED exitCode
                   ELSE ReflectExit(0)
    /\ UNCHANGED <<stderr, reflectState, skillFile, commits, learnings, answer,
                   notReflect>>

\* reflect-hook.ts 3: readTranscript; a missing, unreadable or empty
\* transcript gives "" and exits 0.
HookReadTranscript ==
    /\ mode = "hook"
    /\ pc = "transcript"
    /\ \E empty \in BOOLEAN :
        IF empty THEN ReflectExit(0)
                 ELSE pc' = "analyze" /\ UNCHANGED exitCode
    /\ UNCHANGED <<stderr, reflectState, skillFile, commits, learnings, answer,
                   notReflect>>

\* reflect-hook.ts 3-4: analyzeConversation, and the high-confidence filter.
HookAnalyze ==
    /\ mode = "hook"
    /\ pc = "analyze"
    /\ \E r \in AnalysisResults :
        IF r.threw
        THEN HookCatch /\ UNCHANGED learnings
        ELSE /\ learnings' = r.learnings
             /\ UNCHANGED stderr
             /\ IF r.skipped \/ Len(r.learnings) = 0
                    \/ Len(HighConfidence(r.learnings)) = 0
                THEN ReflectExit(0)
                ELSE pc' = "apply" /\ UNCHANGED exitCode
    /\ UNCHANGED <<reflectState, skillFile, commits, answer, notReflect>>

\* reflect-hook.ts 6: ensureSkillFile and appendToSkillFile; either can throw.
HookApply ==
    /\ mode = "hook"
    /\ pc = "apply"
    /\ \/ /\ skillFile' = AppendToSkillFile(EnsureSkillFile(skillFile))
          /\ pc' = "commit"
          /\ UNCHANGED <<exitCode, stderr>>
       \/ /\ skillFile' \in {skillFile, EnsureSkillFile(skillFile)}
          /\ HookCatch
    /\ UNCHANGED <<reflectState, commits, learnings, answer, notReflect>>

\* isGitAvailable and gitCommitChanges, which reports a failure and does not
\* throw.
GitCommit ==
    /\ mode \in {"hook", "command"}
    /\ pc = "commit"
    /\ \E available \in BOOLEAN, success \in BOOLEAN :
        commits' = IF available /\ success THEN commits + 1 ELSE commits
    /\ pc' = "record"
    /\ UNCHANGED <<exitCode, stderr, reflectState, skillFile, learnings,
                   answer, notReflect>>

\* The learnings that were applied.
Applied == IF mode = "hook" THEN HighConfidence(learnings) ELSE learnings

\* recordReflection, whose saveState can throw: the hook's catch, or in the
\* command handleAnalysis's catch, which returns 2.
Record ==
    /\ mode \in {"hook", "command"}
    /\ pc = "record"
    /\ \/ /\ reflectState' = RecordReflection(reflectState, Len(Applied))
          /\ ReflectExit(0)
          /\ UNCHANGED stderr
       \/ /\ UNCHANGED reflectState
          /\ IF mode = "hook" THEN HookCatch
                              ELSE ReflectExit(2) /\ UNCHANGED stderr
    /\ UNCHANGED <<skillFile, commits, learnings, answer, notReflect>>

\* reflect.ts main: getTranscript; no transcript returns 2.
CmdGetTranscript ==
    /\ mode = "command"
    /\ pc = "start"
    /\ \E found \in BOOLEAN :
        IF found THEN pc' = "analyze" /\ UNCHANGED exitCode
                 ELSE ReflectExit(2)
    /\ UNCHANGED <<stderr, reflectState, skillFile, commits, learnings, answer,
                   notReflect>>

\* handleAnalysis: analyzeConversation; a throw reaches main().catch.
CmdAnalyze ==
    /\ mode = "command"
    /\ pc = "analyze"
    /\ \E r \in AnalysisResults :
        IF r.threw
        THEN ReflectExit(2) /\ UNCHANGED learnings
        ELSE /\ learnings' = r.learnings
             /\ IF r.skipped \/ Len(r.learnings) = 0
                THEN ReflectExit(0)
                ELSE pc' = "ensure" /\ UNCHANGED exitCode
    /\ UNCHANGED <<stderr, reflectState, skillFile, commits, answer, notReflect>>

\* handleAnalysis: ensureSkillFile, called to show the proposed changes; a
\* throw reaches main().catch.
CmdEnsureSkillFile ==
    /\ mode = "command"
    /\ pc = "ensure"
    /\ \/ /\ skillFile' = EnsureSkillFile(skillFile)
          /\ pc' = "prompt"
          /\ UNCHANGED exitCode
       \/ /\ UNCHANGED skillFile
          /\ ReflectExit(2)
    /\ UNCHANGED <<stderr, reflectState, commits, learnings, answer, notReflect>>

\* handleAnalysis: the prompt; anything but "y" or "yes" returns 1.
CmdPrompt ==
    /\ mode = "command"
    /\ pc = "prompt"
    /\ \E a \in Answers :
        /\ answer' = a
        /\ IF Approved(a) THEN pc' = "append" /\ UNCHANGED exitCode
                          ELSE ReflectExit(1)
    /\ UNCHANGED <<stderr, reflectState, skillFile, commits, learnings,
                   notReflect>>

\* handleAnalysis: appendToSkillFile; a throw is caught and returns 2.
CmdApply ==
    /\ mode = "command"
    /\ pc = "append"
    /\ \/ /\ skillFile' = AppendToSkillFile(skillFile)
          /\ pc' = "commit"
          /\ UNCHANGED exitCode
       \/ /\ UNCHANGED skillFile
          /\ ReflectExit(2)
    /\ UNCHANGED <<stderr, reflectState, commits, learnings, answer, notReflect>>

NextReflect ==
    \/ HookCheckEnabled
    \/ HookReadInput
    \/ HookReadTranscript
    \/ HookAnalyze
    \/ HookApply
    \/ GitCommit
    \/ Record
    \/ CmdGetTranscript
    \/ CmdAnalyze
    \/ CmdEnsureSkillFile
    \/ CmdPrompt
    \/ CmdApply

SpecReflect == InitReflect /\ [][NextReflect]_vars

----------------------------------------------------------------------------
(* Two reconcile passes at once, each on its own plan directory.            *)

PlanDirs == {"planA", "planB"}

\* The beads_id of feature i of a plan directory: the two plans share no id.
BeadsId(planDir, i) == <<planDir, i>>

\* A faulty path that does not depend on the plan directory.
ManifestPathIgnoresPlanDir(planDir) == "planA"

\* join(planDir, "manifest.jsonl"): the file a pass reads and writes.
ManifestPath(planDir) == planDir

\* The pairs (manifest status, tracker status) the two plans start from.
StartPairs ==
    {<<"in_progress", "in_progress">>, <<"completed", "open">>,
     <<"pending", "open">>}

ProcessAtStart ==
    [pc |-> "sync", entries |-> <<>>, idx |-> 1, modified |-> FALSE,
     exitCode |-> -1]

Exited(q, code) ==
    [pc |-> "done", entries |-> <<>>, idx |-> 1, modified |-> FALSE,
     exitCode |-> code]

\* One step of the pass on planDir in world w, the commands it runs
\* answering as o says: the steps of reconcile, in the order of Sync, Read,
\* Validate, CheckGit, ReconcileEntry, WriteManifest and Summary.  Here git
\* answers, and lists no uncommitted file; a write that fails leaves the
\* first o.kept lines of the new content.
Step(w, o, planDir) ==
    LET q == w.proc[planDir]
        file == w.plan[ManifestPath(planDir)]
        to(p2) == [w EXCEPT !.proc[planDir] = p2]
    IN  CASE q.pc = "sync" ->
               IF AfterSync(o.sync[planDir]) = "read"
               THEN to([q EXCEPT !.pc = "read"])
               ELSE to(Exited(q, 1))
          [] q.pc = "read" ->
               LET r == ReadManifest(file.manifest, file.corrupt)
               IN  IF r.null THEN to(Exited(q, 1))
                   ELSE to([q EXCEPT !.pc = "validate", !.entries = r.entries])
          [] q.pc = "validate" ->
               IF \A i \in DOMAIN q.entries :
                      ValidateManifestEntry(q.entries[i], RequiredFields)
               THEN to([q EXCEPT !.pc = "git"])
               ELSE to(Exited(q, 1))
          [] q.pc = "git" ->
               to([q EXCEPT !.pc = IF Len(q.entries) = 0 THEN "write" ELSE "loop",
                            !.idx = 1])
          [] q.pc = "loop" ->
               LET e == q.entries[q.idx]
                   b == w.tracker[e.id]
                   d == Decide(e.status, b, o.verified, FALSE)
                   next == IF q.idx + 1 > Len(q.entries) THEN "write" ELSE "loop"
               IN  IF Skips(b)
                   THEN to([q EXCEPT !.pc = next, !.idx = q.idx + 1])
                   ELSE [w EXCEPT
                           !.tracker[e.id] = BeadsAfter(d.call, o.callOk, b),
                           !.proc[planDir] =
                               [q EXCEPT !.pc = next, !.idx = q.idx + 1,
                                         !.entries[q.idx].status = d.status,
                                         !.modified = (q.modified \/ d.modified)]]
          [] q.pc = "write" ->
               IF ~q.modified THEN to([q EXCEPT !.pc = "summary"])
               ELSE IF o.kept[planDir] >= Len(q.entries)
               THEN [w EXCEPT
                       !.plan[ManifestPath(planDir)] =
                           [manifest |-> q.entries, corrupt |-> FALSE],
                       !.proc[planDir] = [q EXCEPT !.pc = "summary"]]
               ELSE [w EXCEPT
                       !.plan[ManifestPath(planDir)] =
                           [manifest |-> SubSeq(q.entries, 1, o.kept[planDir]),
                            corrupt |-> FALSE],
                       !.proc[planDir] = Exited(q, 1)]
          [] q.pc = "summary" -> to(Exited(q, SummaryExit(q.entries)))
          [] OTHER -> w

\* The pass on planDir run from world w to its end.
RECURSIVE RunToEnd(_, _, _)
RunToEnd(w, o, planDir) ==
    IF w.proc[planDir].pc = "done" THEN w
    ELSE RunToEnd(Step(w, o, planDir), o, planDir)

\* What the two passes leave behind: the manifests, the tracker and the exit
\* codes.
Outcome(w) ==
    [plan |-> w.plan, tracker |-> w.tracker,
     exit |-> [d \in PlanDirs |-> w.proc[d].exitCode]]

InitPar ==
    /\ PlanIdle
    /\ HookNotRun
    /\ fields = [i \in Features |-> RequiredFields]
    /\ ReflectNotRun
    /\ DevopsNotRun
    /\ BumpNotRun
    /\ StateNotRun
    /\ pc = "par"
    /\ exitCode = -1
    /\ \E pairs \in [PlanDirs \X Features -> StartPairs] :
        world =
          [plan |-> [d \in PlanDirs |->
                        [manifest |-> [i \in Features |->
                                          Entry(BeadsId(d, i), pairs[<<d, i>>][1])],
                         corrupt |-> FALSE]],
           tracker |-> [id \in PlanDirs \X Features |-> pairs[id][2]],
           proc |-> [d \in PlanDirs |-> ProcessAtStart]]
    /\ world0 = world
    /\ oracle \in [sync : [PlanDirs -> BOOLEAN], callOk : BOOLEAN,
                   verified : BOOLEAN, kept : [PlanDirs -> {0, NumFeatures}]]

notPar ==
    <<manifest, corrupt, beads, env, locals, log, hist, dependsOn, orchVars,
      hookVars, fields, reflectVars, devops, bumpVars, stateVars, pc,
      exitCode>>

\* The pass on planDir takes its next step.
ParStep(planDir) ==
    /\ pc = "par"
    /\ world.proc[planDir].pc # "done"
    /\ world' = Step(world, oracle, planDir)
    /\ UNCHANGED <<world0, oracle, notPar>>

StepA == ParStep("planA")
StepB == ParStep("planB")

NextPar == StepA \/ StepB

SpecPar == InitPar /\ [][NextPar]_vars

----------------------------------------------------------------------------
(* sync-devops.ts, run while a reconcile pass may run on the same plan      *)
(* directory.                                                               *)

\* A manifest line with its optional devops_id ("none" when it has none).
DevopsEntry(i, s, id) == [id |-> i, status |-> s, devops_id |-> id]

Modes == {"--full", "--status", "--create-tasks"}

DevopsAtStart(m) ==
    [mode |-> m, pc |-> "read", entries |-> <<>>, idx |-> 1,
     modified |-> FALSE, hasFailures |-> FALSE, failedOps |-> 0, seen |-> 0,
     exitCode |-> -1]

InitDevops ==
    /\ manifest \in { [i \in Features |-> DevopsEntry(i, f[i], g[i])] :
                        f \in [Features -> {"failed", "completed"}],
                        g \in [Features -> {"none", "task"}] }
    /\ corrupt = FALSE
    /\ beads = [i \in Features |-> "open"]
    /\ verification = [i \in Features |-> "unrun"]
    /\ uncommitted = "unread"
    /\ pc = "sync"
    /\ exitCode = -1
    /\ entries = <<>>
    /\ idx = 1
    /\ modified = FALSE
    /\ synced = "no"
    /\ gitRead = "no"
    /\ shown = {}
    /\ ranVerify = {}
    /\ calls = NoCalls
    /\ nWrites = 0
    /\ pass = 1
    /\ start = Snapshot
    /\ origin = Snapshot
    /\ prev = NoPrev
    /\ dependsOn = [i \in Features |-> {}]
    /\ cur = 0
    /\ verified = "none"
    /\ HookNotRun
    /\ fields = [i \in Features |-> RequiredFields]
    /\ ReflectNotRun
    /\ ParNotRun
    /\ BumpNotRun
    /\ StateNotRun
    /\ \E m \in Modes : devops = DevopsAtStart(m)

\* What sync-devops neither reads nor writes.
notDevops ==
    <<beads, env, pc, exitCode, locals, log, hist, dependsOn, orchVars,
      hookVars, fields, reflectVars, parVars, bumpVars, stateVars>>

DevopsExit(code) ==
    [devops EXCEPT !.pc = "done", !.exitCode = code, !.entries = <<>>]

\* A faulty update of the entry that also resets its status.
WithDevopsIdResetsStatus(entry, id) ==
    [entry EXCEPT !.devops_id = id, !.status = "pending"]

\* `entry.devops_id = result.id`
WithDevopsId(entry, id) == [entry EXCEPT !.devops_id = id]

\* What the story update does to hasFailures: --full reads the result,
\* --status awaits the call and drops it.
StoryFailure(m, success) == m = "--full" /\ ~success

\* main: readManifest, whose JSON.parse throws on a bad line (main().catch
\* exits 1), and the check for an empty manifest.
DevopsRead ==
    /\ devops # <<>>
    /\ devops.pc = "read"
    /\ devops' =
         IF corrupt \/ Len(manifest) = 0 THEN DevopsExit(1)
         ELSE [devops EXCEPT
                 !.entries = manifest,
                 !.seen = nWrites,
                 !.pc = IF devops.mode = "--create-tasks" THEN "loop"
                                                          ELSE "story"]
    /\ UNCHANGED <<disk, notDevops>>

\* --full and --status: updateWorkItem on the story.
DevopsStory ==
    /\ devops # <<>>
    /\ devops.pc = "story"
    /\ \E success \in BOOLEAN :
        devops' =
          [devops EXCEPT
             !.hasFailures = StoryFailure(devops.mode, success),
             !.failedOps = IF success THEN @ ELSE @ + 1,
             !.pc = "loop"]
    /\ UNCHANGED <<disk, notDevops>>

\* One iteration of the loop over the entries: createTask for an entry
\* without devops_id (--create-tasks), updateWorkItem for an entry with one
\* (--full, --status).
DevopsEntryStep ==
    /\ devops # <<>>
    /\ devops.pc = "loop"
    /\ LET e == devops.entries[devops.idx]
           creating == devops.mode = "--create-tasks"
           acts == IF creating THEN e.devops_id = "none"
                               ELSE e.devops_id # "none"
           next == IF devops.idx + 1 > Len(devops.entries)
                   THEN (IF creating THEN "write" ELSE "end")
                   ELSE "loop"
       IN  \E success \in (IF acts THEN BOOLEAN ELSE {TRUE}) :
             devops' =
               [devops EXCEPT
                  !.entries[devops.idx] =
                      IF creating /\ acts /\ success
                      THEN WithDevopsId(e, "task") ELSE e,
                  !.modified = @ \/ (creating /\ acts /\ success),
                  !.hasFailures = @ \/ ~success,
                  !.failedOps = IF success THEN @ ELSE @ + 1,
                  !.idx = @ + 1,
                  !.pc = next]
    /\ UNCHANGED <<disk, notDevops>>

\* --create-tasks: writeManifest when modified; writeFileSync completes, or
\* throws (main().catch exits 1) leaving the file as it was or torn.
DevopsWrite ==
    /\ devops # <<>>
    /\ devops.pc = "write"
    /\ IF ~devops.modified
       THEN devops' = [devops EXCEPT !.pc = "end"] /\ UNCHANGED disk
       ELSE \/ /\ manifest' = devops.entries
               /\ corrupt' = FALSE
               /\ devops' = [devops EXCEPT !.pc = "end"]
            \/ /\ \E t \in TornWrites(devops.entries) \cup
                            {[manifest |-> manifest, corrupt |-> corrupt]} :
                     manifest' = t.manifest /\ corrupt' = t.corrupt
               /\ devops' = DevopsExit(1)
    /\ UNCHANGED notDevops

\* The end of main: process.exit(2) when hasFailures, else the process ends
\* with code 0.
DevopsEnd ==
    /\ devops # <<>>
    /\ devops.pc = "end"
    /\ devops' = DevopsExit(IF devops.hasFailures THEN 2 ELSE 0)
    /\ UNCHANGED <<disk, notDevops>>

NextDevops ==
    \/ Sync
    \/ Read
    \/ Validate
    \/ CheckGit
    \/ ReconcileEntry
    \/ WriteManifest
    \/ Summary
    \/ DevopsRead
    \/ DevopsStory
    \/ DevopsEntryStep
    \/ DevopsWrite
    \/ DevopsEnd

SpecDevops == InitDevops /\ [][NextDevops]_vars

----------------------------------------------------------------------------
(* scripts/bump-version.ts.  A version string is the sequence of its        *)
(* characters.                                                              *)

Digits == {"0", "1", "2", "3", "4", "5", "6", "7", "8", "9"}

\* The letters that occur in the versions tried below.
Letters == {"a", "b", "c", "r", "v"}

\* The place of the first c in s, 0 when there is none.
FirstIndex(s, c) ==
    IF \E i \in DOMAIN s : s[i] = c
    THEN CHOOSE i \in DOMAIN s : s[i] = c /\ \A j \in 1..(i - 1) : s[j] # c
    ELSE 0

RECURSIVE SplitOn(_, _)
\* The parts of s between the occurrences of c.
SplitOn(s, c) ==
    LET k == FirstIndex(s, c)
    IN  IF k = 0 THEN <<s>>
        ELSE <<SubSeq(s, 1, k - 1)>> \o SplitOn(SubSeq(s, k + 1, Len(s)), c)

\* 0|[1-9]\d*
IsNumeric(s) ==
    /\ Len(s) > 0
    /\ \A i \in DOMAIN s : s[i] \in Digits
    /\ Len(s) > 1 => s[1] # "0"

\* [0-9a-zA-Z-]+
IsAlnumHyphen(s) ==
    /\ Len(s) > 0
    /\ \A i \in DOMAIN s : s[i] \in Digits \cup Letters \cup {"-"}

\* 0|[1-9]\d*|\d*[a-zA-Z-][0-9a-zA-Z-]*
IsPrereleaseId(s) ==
    \/ IsNumeric(s)
    \/ IsAlnumHyphen(s) /\ \E i \in DOMAIN s : s[i] \notin Digits

\* normalizeVersion: strip one leading "v".
NormalizeVersion(version) ==
    IF Len(version) > 0 /\ version[1] = "v" THEN Tail(version) ELSE version

\* isValidSemver: major.minor.patch[-prerelease][+build].
IsValidSemver(version) ==
    LET p == FirstIndex(version, "+")
        main == IF p = 0 THEN version ELSE SubSeq(version, 1, p - 1)
        build == SubSeq(version, p + 1, Len(version))
        h == FirstIndex(main, "-")
        core == IF h = 0 THEN main ELSE SubSeq(main, 1, h - 1)
        pre == SubSeq(main, h + 1, Len(main))
        nums == SplitOn(core, ".")
        preIds == SplitOn(pre, ".")
        buildIds == SplitOn(build, ".")
    IN  /\ Len(nums) = 3
        /\ \A i \in DOMAIN nums : IsNumeric(nums[i])
        /\ h # 0 => \A i \in DOMAIN preIds : IsPrereleaseId(preIds[i])
        /\ p # 0 => \A i \in DOMAIN buildIds : IsAlnumHyphen(buildIds[i])

\* The versions tried: those of the file header, and malformed ones.
V120 == <<"1", ".", "2", ".", "0">>
Vv120 == <<"v">> \o V120
VBeta == <<"2", ".", "0", ".", "0", "-", "b", ".", "1">>
VBuild == V120 \o <<"+", "7">>
VTwoParts == <<"1", ".", "2">>
VLeadingZero == <<"0", "1", ".", "2", ".", "0">>
VEmptyPrerelease == V120 \o <<"-">>
VZeroPrerelease == V120 \o <<"-", "0", "1">>
Vvv120 == <<"v">> \o Vv120
VJustV == <<"v">>

Versions ==
    {V120, Vv120, VBeta, VBuild, VTwoParts, VLeadingZero, VEmptyPrerelease,
     VZeroPrerelease, Vvv120, VJustV}

\* packagePaths
PackagePaths == <<"package.json", ".claude-plugin/plugin.json">>

\* What a package file can be: absent, not JSON, JSON whose version is not a
\* string, or JSON with a version string.
PackageFileStates ==
    {[kind |-> k, version |-> <<>>] :
        k \in {"missing", "not json", "no version"}}
    \cup {[kind |-> "ok", version |-> v] : v \in {V120, VBeta}}

\* The version arguments: none, one, or two.
VersionArgs ==
    {<<>>} \cup {<<v>> : v \in Versions} \cup {<<V120, VBeta>>}

InitBump ==
    /\ PlanIdle
    /\ HookNotRun
    /\ fields = [i \in Features |-> RequiredFields]
    /\ ReflectNotRun
    /\ ParNotRun
    /\ DevopsNotRun
    /\ StateNotRun
    /\ pc = "bump"
    /\ exitCode = -1
    /\ packageFiles \in [1..Len(PackagePaths) -> PackageFileStates]
    /\ \E a \in VersionArgs, d \in BOOLEAN :
         bump = [pc |-> "args", versionArgs |-> a, dryRun |-> d,
                 newVersion |-> <<>>, idx |-> 1, packages |-> <<>>,
                 errors |-> <<>>, written |-> {}, before |-> packageFiles,
                 exitCode |-> -1]

\* What bump-version neither reads nor writes.
notBump ==
    <<disk, beads, env, pc, exitCode, locals, log, hist, dependsOn, orchVars,
      hookVars, fields, reflectVars, parVars, devops, stateVars>>

BumpExit(code) == [bump EXCEPT !.pc = "done", !.exitCode = code]

\* A faulty guard that applies the changes in a dry run too.
AppliesAlways(dryRun) == TRUE

\* `if (dryRun) ... else` around the writes.
Applies(dryRun) == ~dryRun

\* main: the argument count, normalizeVersion and isValidSemver.
BumpParseArgs ==
    /\ bump # <<>>
    /\ bump.pc = "args"
    /\ bump' =
         IF Len(bump.versionArgs) # 1 THEN BumpExit(1)
         ELSE LET newVersion == NormalizeVersion(bump.versionArgs[1])
              IN  IF ~IsValidSemver(newVersion) THEN BumpExit(1)
                  ELSE [bump EXCEPT !.newVersion = newVersion, !.pc = "read"]
    /\ UNCHANGED <<packageFiles, notBump>>

\* One iteration of the read loop: readJsonFile throws for an absent file or
\* bad JSON, and a version that is not a string is an error too.
BumpReadFile ==
    /\ bump # <<>>
    /\ bump.pc = "read"
    /\ LET f == packageFiles[bump.idx]
           next == IF bump.idx + 1 > Len(PackagePaths) THEN "check" ELSE "read"
       IN  bump' =
             IF f.kind = "ok"
             THEN [bump EXCEPT
                     !.packages = Append(@, [path |-> bump.idx,
                                             version |-> f.version]),
                     !.idx = @ + 1, !.pc = next]
             ELSE [bump EXCEPT
                     !.errors = Append(@, bump.idx),
                     !.idx = @ + 1, !.pc = next]
    /\ UNCHANGED <<packageFiles, notBump>>

\* `if (errors.length > 0) ... process.exit(1)`, then the dry-run branch.
BumpCheckErrors ==
    /\ bump # <<>>
    /\ bump.pc = "check"
    /\ bump' =
         IF Len(bump.errors) > 0 THEN BumpExit(1)
         ELSE IF Applies(bump.dryRun)
              THEN [bump EXCEPT !.idx = 1, !.pc = "apply"]
              ELSE BumpExit(0)
    /\ UNCHANGED <<packageFiles, notBump>>

\* One iteration of the write loop: writeJsonFile for a package whose
\* version differs; Bun.write completes, or throws (main().catch exits 1)
\* leaving the file as it was or cut short.
BumpWriteFile ==
    /\ bump # <<>>
    /\ bump.pc = "apply"
    /\ bump.idx <= Len(bump.packages)
    /\ LET pkg == bump.packages[bump.idx]
       IN  IF pkg.version = bump.newVersion
           THEN /\ bump' = [bump EXCEPT !.idx = @ + 1]
                /\ UNCHANGED packageFiles
           ELSE \/ /\ packageFiles' =
                        [packageFiles EXCEPT
                           ![pkg.path] = [kind |-> "ok",
                                          version |-> bump.newVersion]]
                   /\ bump' = [bump EXCEPT
                                 !.idx = @ + 1,
                                 !.written = @ \cup {pkg.path}]
                \/ /\ \E cut \in BOOLEAN :
                        packageFiles' =
                          IF cut
                          THEN [packageFiles EXCEPT
                                  ![pkg.path] = [kind |-> "not json",
                                                 version |-> <<>>]]
                          ELSE packageFiles
                   /\ bump' = [BumpExit(1) EXCEPT
                                 !.written = @ \cup {pkg.path}]
    /\ UNCHANGED notBump

\* `process.exit(0)` after the write loop.
BumpDone ==
    /\ bump # <<>>
    /\ bump.pc = "apply"
    /\ bump.idx > Len(bump.packages)
    /\ bump' = BumpExit(0)
    /\ UNCHANGED <<packageFiles, notBump>>

NextBump ==
    \/ BumpParseArgs
    \/ BumpReadFile
    \/ BumpCheckErrors
    \/ BumpWriteFile
    \/ BumpDone

SpecBump == InitBump /\ [][NextBump]_vars

----------------------------------------------------------------------------
(* Three reconcile passes in a row on one plan directory, the first counted *)
(* as pass 0, from manifests whose features need a tracker call.            *)
InitConverge ==
    /\ manifest \in { [i \in Features |-> Entry(i, f[i])] :
                        f \in [Features -> {"in_progress", "failed",
                                            "completed"}] }
    /\ corrupt = FALSE
    /\ beads \in [Features -> {"open", "in_progress"}]
    /\ verification = [i \in Features |-> "unrun"]
    /\ uncommitted = "unread"
    /\ pc = "sync"
    /\ exitCode = -1
    /\ entries = <<>>
    /\ idx = 1
    /\ modified = FALSE
    /\ synced = "no"
    /\ gitRead = "no"
    /\ shown = {}
    /\ ranVerify = {}
    /\ calls = NoCalls
    /\ nWrites = 0
    /\ pass = 0
    /\ start = Snapshot
    /\ origin = Snapshot
    /\ prev = NoPrev
    /\ dependsOn = [i \in Features |-> {}]
    /\ cur = 0
    /\ verified = "none"
    /\ HookNotRun
    /\ ElsewhereIdle

SpecConverge == InitConverge /\ [][Next]_vars

----------------------------------------------------------------------------
(* lib/reflect-config.ts: .reflect-state.json under calls of                *)
(* recordReflection and setEnabled made by two processes.                   *)

\* The file holds a state the schema accepts, is absent, or does not parse
\* or validate (state is then not read).
FileHolding(st) == [kind |-> "valid", state |-> st]
FileMissing == [kind |-> "missing", state |-> DEFAULT_STATE]
FileCorrupt == [kind |-> "corrupt", state |-> DEFAULT_STATE]

ReflectStates ==
    [enabled : BOOLEAN, lastReflection : {"null", "earlier"},
     totalLearnings : {0, 1}]

StateFiles ==
    {FileHolding(st) : st \in ReflectStates} \cup {FileMissing, FileCorrupt}

\* loadState: the validated content, or the defaults when the file is
\* missing or corrupted.
LoadState(file) ==
    IF file.kind = "valid" THEN file.state ELSE DEFAULT_STATE

\* saveState: JSON.stringify and writeFileSync.
SaveState(st) == FileHolding(st)

\* A faulty setEnabled that starts from the defaults.
SetEnabledFromDefaults(st, enabled) == [DEFAULT_STATE EXCEPT !.enabled = enabled]

\* setEnabled, between loadState and saveState.
SetEnabled(st, enabled) == [st EXCEPT !.enabled = enabled]

\* The processes that call into reflect-config.ts.
Callers == {1, 2}

\* Number of calls the processes make in all.
MaxCalls == 3

\* recordReflection(n) and setEnabled(x).
Calls ==
    {[kind |-> "record", n |-> n, enabled |-> FALSE] : n \in {1, 2}}
    \cup {[kind |-> "set", n |-> 0, enabled |-> x] : x \in BOOLEAN}

NoCall == [kind |-> "none", n |-> 0, enabled |-> FALSE]

\* What a call saves for the state it loaded.
Updated(call, st) ==
    IF call.kind = "record" THEN RecordReflection(st, call.n)
    ELSE SetEnabled(st, call.enabled)

InitState ==
    /\ PlanIdle
    /\ HookNotRun
    /\ fields = [i \in Features |-> RequiredFields]
    /\ ReflectNotRun
    /\ ParNotRun
    /\ DevopsNotRun
    /\ BumpNotRun
    /\ pc = "state"
    /\ exitCode = -1
    /\ stateFile \in StateFiles
    /\ callers = [p \in Callers |->
                    [pc |-> "idle", call |-> NoCall, state |-> DEFAULT_STATE,
                     interfered |-> FALSE]]
    /\ tally = [initial |-> LoadState(stateFile), started |-> 0, sum |-> 0,
                records |-> {}, sets |-> 0, lastSet |-> FALSE,
                interfered |-> FALSE, failed |-> FALSE]

\* What reflect-config.ts neither reads nor writes.
notState ==
    <<disk, beads, env, pc, exitCode, locals, log, hist, dependsOn, orchVars,
      hookVars, fields, reflectVars, parVars, devops, bumpVars>>

\* The other processes that have loaded the state and not yet saved it see
\* a save of this one come in between.
Interfere(p, cs) ==
    [q \in Callers |->
        IF q # p /\ cs[q].pc \in {"loaded", "writing"}
        THEN [cs[q] EXCEPT !.interfered = TRUE]
        ELSE cs[q]]

\* recordReflection / setEnabled, first line: loadState.
CallLoad(p) ==
    /\ callers[p].pc = "idle"
    /\ tally.started < MaxCalls
    /\ \E call \in Calls :
        callers' = [callers EXCEPT
                      ![p] = [pc |-> "loaded", call |-> call,
                              state |-> LoadState(stateFile),
                              interfered |-> FALSE]]
    /\ tally' = [tally EXCEPT !.started = @ + 1]
    /\ UNCHANGED <<stateFile, notState>>

\* saveState, writeFileSync opening the file: the file is truncated.
CallOpen(p) ==
    /\ callers[p].pc = "loaded"
    /\ stateFile' = FileCorrupt
    /\ callers' = [callers EXCEPT ![p].pc = "writing"]
    /\ UNCHANGED <<tally, notState>>

\* saveState, writeFileSync returning: the new content is in the file; or
\* throwing, and the file stays cut short and the process ends.
CallSave(p) ==
    /\ callers[p].pc = "writing"
    /\ LET c == callers[p]
           done == [c EXCEPT !.pc = "idle", !.call = NoCall,
                             !.state = DEFAULT_STATE, !.interfered = FALSE]
       IN  \/ /\ stateFile' = SaveState(Updated(c.call, c.state))
              /\ callers' = Interfere(p, [callers EXCEPT ![p] = done])
              /\ tally' =
                   [tally EXCEPT
                      !.sum = IF c.call.kind = "record" THEN @ + c.call.n
                              ELSE @,
                      !.records = IF c.call.kind = "record" THEN @ \cup {p}
                                  ELSE @,
                      !.sets = IF c.call.kind = "set" THEN @ + 1 ELSE @,
                      !.lastSet = IF c.call.kind = "set" THEN c.call.enabled
                                  ELSE @,
                      !.interfered = @ \/ c.interfered]
           \/ /\ stateFile' = FileCorrupt
              /\ callers' = [callers EXCEPT ![p] = [done EXCEPT !.pc = "gone"]]
              /\ tally' = [tally EXCEPT !.failed = TRUE]
    /\ UNCHANGED notState

CallerStep(p) == CallLoad(p) \/ CallOpen(p) \/ CallSave(p)

FirstCaller == CallerStep(1)

SecondCaller == CallerStep(2)

NextState == FirstCaller \/ SecondCaller

SpecState == InitState /\ [][NextState]_vars

----------------------------------------------------------------------------
\* The names of the gates evaluated so far, in order.
GatesEvaluated == [k \in DOMAIN evaluated |-> evaluated[k].gate]

\* The gates that were evaluated and failed.
FailedGates ==
    {evaluated[k].gate : k \in {j \in DOMAIN evaluated :
                                    evaluated[j].result = "fail"}}

\* What the error stream names.
Reported == {stderr[k] : k \in DOMAIN stderr}

\* C14: in every run of the Stop hook, gate 0, gate 1, each configured
\* command gate and gate 7 have all been evaluated, in that order, when the
\* hook exits.
C14_NonShortCircuiting ==
    pc = "done" =>
        GatesEvaluated = <<"workflow", "uncommitted">>
                            \o GetVerificationCommands(config.keys)
                            \o <<"agent">>

\* C15: the hook exits 0 only if no gate failed; if a gate failed it exits 2
\* and the error stream carries every failed gate.
C15_EveryFailureReported ==
    pc = "done" =>
        /\ exitCode = 0 => FailedGates = {}
        /\ FailedGates # {} => exitCode = 2 /\ FailedGates \subseteq Reported

\* C16: only configured command gates run.  A command gate that was evaluated
\* or that the error stream names has its key in the configuration; and when
\* build_command is unset and the test gate is the one gate that failed, the
\* hook exits 2 and the error stream holds the test gate and nothing else.
C16_OnlyConfiguredGatesRun ==
    /\ \A k \in DOMAIN evaluated :
          evaluated[k].gate \in CommandKeySet
              => evaluated[k].gate \in config.keys
    /\ \A k \in DOMAIN stderr :
          stderr[k] \in CommandKeySet => stderr[k] \in config.keys
    /\ ( /\ pc = "done"
         /\ "build_command" \notin config.keys
         /\ FailedGates = {"test_command"}
         /\ ~config.error )
        => exitCode = 2 /\ stderr = <<"test_command">>

C16_Witness ==
    /\ pc = "done"
    /\ exitCode = 2
    /\ config.keys = {"test_command", "lint_command"}
    /\ GatesEvaluated =
          <<"workflow", "uncommitted", "test_command", "lint_command", "agent">>
    /\ stderr = <<"test_command">>

\* The features that are completed in the manifest while their task is not
\* closed in the tracker.
CompletedNotClosed ==
    {i \in DOMAIN manifest :
        manifest[i].status = "completed" /\ beads[manifest[i].id] # "closed"}

\* C17 as stated: when the hook allows the stop, every feature that is
\* completed in the manifest has its tracker item closed.
C17_ClosesCompletedOnAllow ==
    (pc = "done" /\ exitCode = 0) => CompletedNotClosed = {}

\* C17, amended: when the hook allows the stop, the tracker and the manifest
\* are as they were when the hook started.
C17_AllowedStopLeavesTracker ==
    (pc = "done" /\ exitCode = 0) =>
        beads = start.beads /\ manifest = start.manifest

C17_Witness ==
    /\ pc = "done"
    /\ exitCode = 0
    /\ Len(evaluated) > 3
    /\ CompletedNotClosed # {}

\* The items in progress in the tracker that are features or epics with no
\* child at all.
Undecomposed ==
    {k \in DOMAIN tracked :
        tracked[k].issue_type \in {"feature", "epic"}
            /\ tracked[k].children = {}}

\* C18: once gate 0 has been evaluated, it has failed if a feature or epic
\* that is not decomposed is in progress in the tracker, and no issue it
\* found is about a bug or about a task whose title starts with "Research:"
\* in any letter case.
C18_WorkflowCompliance ==
    pc = "gate1" =>
        /\ Undecomposed # {} => evaluated[1].result = "fail"
        /\ \A k \in DOMAIN issues :
              /\ issues[k].item.issue_type # "bug"
              /\ issues[k].item.issue_type = "task"
                    => issues[k].item.title
                          \notin {TitleResearch, TitleRESEARCH}

\* A step that changes manifest.jsonl leaves the complete new content.
CompleteSave == disk' # disk => (manifest' = entries /\ ~corrupt')

(* C19: the save is atomic: at every instant, also when the process is      *)
(* killed during a save, manifest.jsonl holds the complete previous content *)
(* or the complete new content.                                             *)
C19_AtomicSave == [][CompleteSave]_vars

\* A step that changes manifest.jsonl keeps every line in its place and
\* changes nothing but the status of lines.
SameFeatures ==
    manifest' # manifest =>
        /\ DOMAIN manifest' = DOMAIN manifest
        /\ \A i \in DOMAIN manifest :
              manifest'[i] = [manifest[i] EXCEPT !.status = manifest'[i].status]

(* C20: every rewrite of the manifest keeps the sequence of feature ids: no *)
(* feature is added, deleted, duplicated or reordered, and reconcile        *)
(* changes no field but status.                                             *)
C20_RewritePreservesIds == [][SameFeatures]_vars

----------------------------------------------------------------------------
\* Line i of the manifest this pass started from lacks a required field or
\* has a status outside the enum.
Malformed(i) ==
    fields[i] # RequiredFields \/ start.manifest[i].status \notin ValidStatuses

(* C21: if any record lacks a required field or has a status outside the    *)
(* enum, reconcile exits 1 and reconciles no feature of that manifest: it   *)
(* looks up no tracker status, makes no update or close call and does not   *)
(* write the manifest.                                                      *)
C21_MalformedManifestNotReconciled ==
    (\E i \in DOMAIN start.manifest : Malformed(i)) =>
        /\ shown = {}
        /\ calls = NoCalls
        /\ nWrites = 0
        /\ pc = "done" => exitCode = 1

\* The lines whose tracker status was absent when this pass started.
AbsentLines ==
    {i \in DOMAIN start.manifest :
        start.beads[start.manifest[i].id] = Absent}

(* C22: a feature whose tracker status is absent is skipped: this pass      *)
(* makes no update or close call for its tracker id, its entry and its line *)
(* of manifest.jsonl keep their status, and when the pass finishes the      *)
(* line is as it was and every feature's tracker status was looked up.      *)
C22_AbsentSkipped ==
    \A i \in AbsentLines :
        /\ calls[start.manifest[i].id] = "none"
        /\ beads[start.manifest[i].id] = Absent
        /\ i \in DOMAIN entries => entries[i] = start.manifest[i]
        /\ i \in DOMAIN manifest => manifest[i] = start.manifest[i]
        /\ Finished =>
              /\ i \in DOMAIN manifest
              /\ \A j \in DOMAIN manifest : manifest[j].id \in shown

C22_Witness ==
    /\ Finished
    /\ nWrites > 0
    /\ AbsentLines # {}
    /\ \E j \in DOMAIN manifest :
          /\ j \notin AbsentLines
          /\ calls[manifest[j].id] = "update_ok"
          /\ manifest[j] # start.manifest[j]

\* The lines that were completed in the manifest with their task open or
\* in progress when this pass started, and that the loop has gone past.
CompletedOpen ==
    {i \in DOMAIN start.manifest :
        /\ StartPair(i) \in {<<"completed", "open">>, <<"completed", "in_progress">>}
        /\ i \in DOMAIN entries
        /\ i < idx}

(* C23: for a feature with manifest completed and tracker open or           *)
(* in_progress, reconcile calls close on the tracker item; when the close   *)
(* fails, the pass reports it (what it prints differs from what it prints   *)
(* for a close that succeeded) and the entry stays completed.               *)
C23_CloseFailureReported ==
    \A i \in CompletedOpen :
        /\ calls[start.manifest[i].id] \in {"close_ok", "close_failed"}
        /\ entries[i].status = "completed"
        /\ calls[start.manifest[i].id] = "close_failed"
              => ResultAction("close", FALSE) # ResultAction("close", TRUE)

\* A line whose pair was not (pending, open) or (completed, closed) when
\* this pass started, with its tracker status found: the loop takes one of
\* Cases 1 to 6 for it.
FoundInconsistent ==
    \E i \in DOMAIN start.manifest :
        StartPair(i) \notin Consistent /\ StartPair(i)[2] # Absent

(* C24: reconcile exits 0 only when nothing was left to fix, and exits 2    *)
(* when it found and fixed inconsistencies in this pass or when another     *)
(* pass is needed.                                                          *)
C24_ExitCodeProtocol ==
    pc = "done" =>
        /\ exitCode = 0 => ~FoundInconsistent
        /\ (Finished /\ FoundInconsistent) => exitCode = 2

----------------------------------------------------------------------------
(* C25: the reflect Stop hook never blocks a stop: on every path, an        *)
(* exception included, it ends with exit code 0.                            *)
C25_ReflectHookNeverBlocks ==
    (mode = "hook" /\ pc = "done") => exitCode = 0

C25_Witness ==
    /\ mode = "hook"
    /\ pc = "done"
    /\ exitCode = 0
    /\ stderr = <<"Reflect hook error">>
    /\ skillFile # before.skillFile

(* C26: in the reflect command, when the user declines the proposed         *)
(* learnings nothing is persisted: the skill file, the git commits and      *)
(* .reflect-state.json are as they were when the command started.           *)
C26_DeclineLeavesNoTrace ==
    (mode = "command" /\ pc = "done" /\ answer \in Answers /\ ~Approved(answer))
        => ReflectSnapshot = before

\* Both passes have ended.
BothDone == pc = "par" /\ \A d \in PlanDirs : world.proc[d].pc = "done"

----------------------------------------------------------------------------
(* C27: in every mode, sync-devops exits 2 whenever a work-item operation   *)
(* (story update, feature update, task creation) failed during the run,     *)
(* and ends with code 0 only if every operation it attempted succeeded.     *)
C27_FailureExitsTwo ==
    (devops # <<>> /\ devops.pc = "done" /\ devops.exitCode \in {0, 2}) =>
        (devops.exitCode = 2 <=> devops.failedOps > 0)

----------------------------------------------------------------------------
(* C30: only the orchestration loop and reconcile change a feature's        *)
(* status.  A step of sync-devops, in any mode, leaves every line stored in *)
(* manifest.jsonl with the status it had, provided no write of the manifest *)
(* by reconcile falls between sync-devops reading the manifest and writing  *)
(* it back.                                                                 *)

\* This step is one of sync-devops.
DevopsStep == devops' # devops

\* Every line stored after the step was stored before it, with that status.
StatusesKept ==
    \A i \in DOMAIN manifest' :
        /\ i \in DOMAIN manifest
        /\ manifest'[i].status = manifest[i].status

\* No reconcile write since sync-devops read the manifest.
NotOverlapped == devops.pc = "write" => nWrites = devops.seen

C30_SerializedSyncKeepsStatus ==
    [][(DevopsStep /\ NotOverlapped) => StatusesKept]_vars

\* sync-devops --create-tasks read the manifest after reconcile had written
\* it, and has written it back with a new devops_id.
C30_Witness ==
    /\ devops # <<>>
    /\ devops.pc = "end"
    /\ devops.mode = "--create-tasks"
    /\ devops.modified
    /\ pc = "done"
    /\ nWrites > 0
    /\ devops.seen = nWrites
    /\ \E i \in DOMAIN manifest : manifest[i].devops_id = "task"

\* The statement as written: also when interleaved with a reconcile pass.
C30_InterleavedSyncKeepsStatus == [][DevopsStep => StatusesKept]_vars

----------------------------------------------------------------------------
(* C28: bump-version writes no file unless the normalized version is valid  *)
(* semver, every package file was read with a string version field, and     *)
(* --dry-run is absent; otherwise package.json and plugin.json stay as they *)
(* were.                                                                    *)

\* A write of a package file was attempted, or a package file differs.
BumpWrote == bump.written # {} \/ packageFiles # bump.before

\* Every package file was read, with a string version.
AllPackagesRead ==
    /\ Len(bump.packages) = Len(PackagePaths)
    /\ Len(bump.errors) = 0
    /\ \A i \in DOMAIN PackagePaths : bump.before[i].kind = "ok"

C28_WritesOnlyWhenValid ==
    (bump # <<>> /\ BumpWrote) =>
        /\ Len(bump.versionArgs) = 1
        /\ IsValidSemver(NormalizeVersion(bump.versionArgs[1]))
        /\ AllPackagesRead
        /\ ~bump.dryRun

\* A dry run with a valid version and both files readable, one of them at
\* another version, has ended and left both files alone.
C28_Witness ==
    /\ bump # <<>>
    /\ bump.pc = "done"
    /\ bump.exitCode = 0
    /\ bump.dryRun
    /\ AllPackagesRead
    /\ \E i \in DOMAIN bump.packages :
          bump.packages[i].version # bump.newVersion
    /\ ~BumpWrote

----------------------------------------------------------------------------
(* C31: a task in progress passes the workflow-compliance gate if and only  *)
(* if it is a research task, or it has no parent feature among its          *)
(* dependencies, or its parent feature is both planned and optimized; for   *)
(* an unplanned parent exactly one issue, the 'unplanned' one, is reported  *)
(* for the task.                                                            *)

\* The issues the gate reported for an item.
IssuesAbout(item) ==
    {k \in DOMAIN issues : issues[k].item = item}

\* What the tracker holds says the task may pass.
MayPass(item) ==
    \/ IsResearchTask(item)
    \/ item.parent = "none"
    \/ item.parent = "optimized"

C31_TaskPassesIffPlanned ==
    pc = "gate1" =>
        \A k \in DOMAIN inProgress :
            LET item == inProgress[k]
                copies == Cardinality({j \in DOMAIN inProgress :
                                          inProgress[j] = item})
            IN  item.issue_type = "task" =>
                    /\ IssuesAbout(item) = {} <=> MayPass(item)
                    /\ (~IsResearchTask(item) /\ item.parent = "unplanned") =>
                          /\ Cardinality(IssuesAbout(item)) = copies
                          /\ \A j \in IssuesAbout(item) :
                                issues[j].issue = "unplanned_feature"

----------------------------------------------------------------------------
\* The features that manifest.jsonl says are completed.
CompletedOnDisk ==
    {manifest[i].id : i \in {j \in DOMAIN manifest :
                                manifest[j].status = "completed"}}

(* C32: completed is absorbing under reconciliation: no step of a reconcile *)
(* pass takes a feature out of the set of completed features of             *)
(* manifest.jsonl, so across any sequence of passes that set never shrinks. *)
C32_CompletedNeverShrinks ==
    [][CompletedOnDisk \subseteq CompletedOnDisk']_vars

----------------------------------------------------------------------------
\* A status that this step changed, in memory or in manifest.jsonl, is now
\* pending or completed.
ChangesOnlyTo(allowed) ==
    /\ (entries # <<>> /\ entries' # <<>>) =>
          \A i \in DOMAIN entries :
              entries'[i].status # entries[i].status =>
                  entries'[i].status \in allowed
    /\ \A i \in DOMAIN manifest' :
          (i \in DOMAIN manifest /\ manifest'[i].status # manifest[i].status)
              => manifest'[i].status \in allowed

(* C33: reconcile only ever sets a manifest status to pending or completed: *)
(* no step of a pass sets a feature to in_progress or failed, so reconcile  *)
(* never itself starts a feature.                                           *)
C33_SetsOnlyPendingOrCompleted ==
    [][ChangesOnlyTo({"pending", "completed"})]_vars

\* A pass has written a manifest in which a feature that was in_progress at
\* its start is pending, and one in which a feature is completed that was
\* not.
C33_Witness ==
    /\ pc = "done"
    /\ nWrites > 0
    /\ DOMAIN manifest = DOMAIN start.manifest
    /\ \E i \in DOMAIN manifest :
          /\ start.manifest[i].status = "in_progress"
          /\ manifest[i].status = "pending"
    /\ \E i \in DOMAIN manifest :
          /\ start.manifest[i].status # "completed"
          /\ manifest[i].status = "completed"

----------------------------------------------------------------------------
\* What the loop did to line i is what the decision table says for the pair
\* the line had when the pass started, the answer of its own verification
\* command and the working tree: the status in memory, the one call made
\* and the tracker status after it.
OwnOutcome(i) ==
    LET id == entries[i].id
        m0 == start.manifest[i].status
        b0 == start.beads[id]
        d == Decide(m0, b0, verification[id] = "pass", uncommitted = "dirty")
    IN  IF Skips(b0)
        THEN /\ entries[i].status = m0
             /\ calls[id] = "none"
             /\ beads[id] = b0
        ELSE /\ entries[i].status = d.status
             /\ calls[id] \in {CallLog(d.call, ok) : ok \in BOOLEAN}
             /\ beads[id] = BeadsAfter(d.call, calls[id] \notin FailedCalls, b0)

LoopDone == pc \in {"write", "summary"} /\ entries # <<>>

\* An iteration of the loop comes to a feature once in a pass and touches
\* the tracker status and the call log of that feature only.
OneCallPerFeature ==
    (pc = "loop" /\ idx' = idx + 1) =>
        /\ entries[idx].id \notin shown
        /\ \A j \in Features \ {entries[idx].id} :
              beads'[j] = beads[j] /\ calls'[j] = calls[j]

(* C34: the decision table is a function of the feature's own pair: one     *)
(* case applies to it, at most one tracker call (one update or one close)   *)
(* is made per feature per pass, and the outcome for a feature does not     *)
(* depend on the statuses or the position of the other features.            *)
C34_DecisionPerFeature ==
    [][/\ OneCallPerFeature
       /\ LoopDone' => \A i \in DOMAIN entries' : OwnOutcome(i)']_vars

\* The loop has ended after a close for one feature and an update for
\* another.
C34_Witness ==
    /\ LoopDone
    /\ \E i, j \in Features :
          /\ calls[i] \in {"close_ok", "close_failed"}
          /\ calls[j] \in {"update_ok", "update_failed"}

----------------------------------------------------------------------------
\* This step writes manifest.jsonl, or changes it.
WritesManifest == nWrites' > nWrites \/ disk' # disk

\* The write is the first of the pass, comes after the loop has been through
\* every entry, and stores at least one status that differs from the one
\* read.
WriteInOrder ==
    /\ nWrites = 0
    /\ pc = "write"
    /\ shown = {entries[i].id : i \in DOMAIN entries}
    /\ DOMAIN entries = DOMAIN manifest
    /\ \E i \in DOMAIN entries : entries[i].status # manifest[i].status

(* C35: within one pass manifest.jsonl is written at most once, only after  *)
(* the tracker calls for all features have been issued, and only if a       *)
(* manifest status changed; a pass that changes no status writes nothing.   *)
C35_OneWriteAfterLoop == [][WritesManifest => WriteInOrder]_vars

\* A pass has written the manifest and reached its summary.
C35_Witness ==
    /\ pc = "summary"
    /\ nWrites = 1
    /\ manifest = entries
    /\ manifest # start.manifest

----------------------------------------------------------------------------
\* The lines whose task was closed, and whose status was not completed, when
\* the pass started.
ClosedNotCompleted ==
    {i \in DOMAIN start.manifest :
        /\ start.beads[start.manifest[i].id] = "closed"
        /\ start.manifest[i].status \in {"pending", "in_progress", "failed"}}

----------------------------------------------------------------------------
\* The previous pass ran to its end with a failed bd update / bd close call.
PrevHadFailedCall == PrevFinished /\ prev.failed

\* The previous pass ran to its end with no failed call, right after a pass
\* that ran to its end with one.
PrevRepaired == PrevFinished /\ ~prev.failed /\ prev.afterFailed

(* C37: convergence after tracker failures: when bd update / bd close calls *)
(* failed during a pass, a further pass whose calls succeed and that runs   *)
(* to its end brings every feature whose tracker status is known to         *)
(* (pending, open) or (completed, closed), and the pass after that changes  *)
(* nothing.                                                                 *)
C37_ConvergesAfterFailures ==
    /\ (Finished /\ PrevHadFailedCall /\ ~PassFailed) =>
          \A i \in DOMAIN manifest :
              beads[manifest[i].id] # Absent => Pair(i) \in Consistent
    /\ (pc = "done" /\ PrevRepaired) => ChangedNothing

\* The third pass has ended, after a pass that had to repeat a call that
\* failed in the pass before it.
C37_Witness ==
    /\ pc = "done"
    /\ exitCode = 0
    /\ PrevRepaired
    /\ prev.acted
    /\ ChangedNothing
    /\ \A i \in DOMAIN manifest : Pair(i) \in Consistent

----------------------------------------------------------------------------
\* No call is between its loadState and the end of its saveState.
Quiescent == \A p \in Callers : callers[p].pc \in {"idle", "gone"}

\* Every call so far returned, and none had a save of another process
\* between its load and its save.
CallsSerial == ~tally.interfered /\ ~tally.failed

(* C38, as stated: after any set of recordReflection(n_i) calls, also from  *)
(* two processes whose load and save steps interleave, totalLearnings is    *)
(* its initial value plus the sum of the n_i, and enabled is unchanged      *)
(* (no other call being made).                                              *)
C38_CounterIsSum ==
    (Quiescent /\ ~tally.failed /\ tally.sets = 0) =>
        /\ LoadState(stateFile).totalLearnings
              = tally.initial.totalLearnings + tally.sum
        /\ LoadState(stateFile).enabled = tally.initial.enabled

(* C38, amended: after any set of recordReflection(n_i) calls that each     *)
(* returned and that were not interleaved (no save of another process       *)
(* between a call's load and its save), totalLearnings is its initial value *)
(* plus the sum of the n_i, and enabled is as it was unless setEnabled was  *)
(* called.                                                                  *)
C38_SerialCounterIsSum ==
    (Quiescent /\ CallsSerial) =>
        /\ LoadState(stateFile).totalLearnings
              = tally.initial.totalLearnings + tally.sum
        /\ tally.sets = 0 =>
              LoadState(stateFile).enabled = tally.initial.enabled

\* Both processes have recorded learnings, one call after the other, on a
\* state that was enabled and had a count.
C38_Witness ==
    /\ Quiescent
    /\ CallsSerial
    /\ tally.records = Callers
    /\ tally.sets = 0
    /\ tally.sum > 1
    /\ tally.initial.enabled
    /\ tally.initial.totalLearnings > 0
    /\ LoadState(stateFile).totalLearnings
          = tally.initial.totalLearnings + tally.sum

----------------------------------------------------------------------------
(* C39: setEnabled(x) changes only the enabled flag: after setEnabled calls *)
(* made one after the other, and no other call, loadState gives the         *)
(* lastReflection and totalLearnings it gave before them (the defaults for  *)
(* a missing or corrupted file) and the flag last set.                      *)
C39_SetEnabledKeepsRest ==
    (Quiescent /\ CallsSerial /\ tally.records = {} /\ tally.sets > 0) =>
        /\ LoadState(stateFile).lastReflection = tally.initial.lastReflection
        /\ LoadState(stateFile).totalLearnings = tally.initial.totalLearnings
        /\ LoadState(stateFile).enabled = tally.lastSet

\* setEnabled has turned the flag of a state with a timestamp and a count.
C39_Witness ==
    /\ Quiescent
    /\ CallsSerial
    /\ tally.records = {}
    /\ tally.sets > 0
    /\ tally.initial.lastReflection = "earlier"
    /\ tally.initial.totalLearnings = 1
    /\ LoadState(stateFile).enabled # tally.initial.enabled
    /\ LoadState(stateFile).totalLearnings = 1

====
